---------------------------- MODULE Spec2Model ----------------------------
(***************************************************************************)
(* A model of the sconfig configuration loader bundled with godocgen       *)
(* (src/unnamed/part_001): the line reader (readFile, removeComments,      *)
(* collapseWhitespace) and the field binder (Parse, fieldNameFromKey,      *)
(* setFromHandler, setFromTypeHandler).                                    *)
(*                                                                         *)
(* A Go string is a sequence of one-character strings.  Offsets are the    *)
(* 0-based byte offsets of the Go code; At and Slice translate them.  The  *)
(* model's alphabet is ASCII, so a byte offset is a rune offset.           *)
(***************************************************************************)
EXTENDS Integers, Sequences, FiniteSets, TLC

(***************************************************************************)
(* Bounds of the model.                                                    *)
(***************************************************************************)
\* longest physical line drawn exhaustively over Alphabet (SpecLine)
MaxLen == 5
\* most physical lines of the file readFile is given (SpecRead)
MaxLines == 3
\* most physical lines of the file Parse is given (Spec)
MaxParseLines == 3
\* the most non-empty pages the server has
MaxPages == 2
\* the most groups of a configuration
MaxGroups == 2
\* the most packages given to makeHome
MaxPackages == 2
\* the most packages list has collected before it sorts them
MaxListed == 4

(***************************************************************************)
(* Strings.                                                                *)
(***************************************************************************)
\* s[k] of Go, k 0-based
At(s, k) == s[k + 1]

\* s[a:b] of Go
Slice(s, a, b) == SubSeq(s, a + 1, b)

\* the value a function that panicked "returns": Go unwinds instead; no
\* string of the model holds a multi-character element, so no string equals it
Panicked == <<"!panic">>

\* unicode.IsSpace, on the model's alphabet
IsSpace(c) == c \in {" ", "\t"}

RECURSIVE TrimLeft(_)
TrimLeft(s) ==
    IF s # <<>> /\ IsSpace(Head(s)) THEN TrimLeft(Tail(s)) ELSE s

RECURSIVE TrimRight(_)
TrimRight(s) ==
    IF s # <<>> /\ IsSpace(s[Len(s)])
        THEN TrimRight(SubSeq(s, 1, Len(s) - 1))
        ELSE s

\* strings.TrimSpace
TrimSpace(s) == TrimRight(TrimLeft(s))

\* strings.Index(s, c) for a one-character c: the 0-based offset of the first
\* c in s, -1 when there is none
Index(s, c) ==
    IF \E k \in 1..Len(s) : s[k] = c
        THEN (CHOOSE k \in 1..Len(s) :
                  s[k] = c /\ \A j \in 1..(k - 1) : s[j] # c) - 1
        ELSE -1

\* strings.HasPrefix
HasPrefix(s, p) == Len(s) >= Len(p) /\ SubSeq(s, 1, Len(p)) = p

RECURSIVE Split(_, _)
\* strings.Split(s, sep) for a one-character sep: always at least one token,
\* and an empty token between two adjacent separators
Split(s, sep) ==
    LET k == Index(s, sep)
    IN  IF k < 0
            THEN <<s>>
            ELSE <<Slice(s, 0, k)>> \o Split(Slice(s, k + 1, Len(s)), sep)

RECURSIVE Join(_, _)
\* strings.Join(a, sep)
Join(a, sep) ==
    IF a = <<>> THEN <<>>
    ELSE IF Len(a) = 1 THEN a[1]
    ELSE a[1] \o sep \o Join(Tail(a), sep)

(***************************************************************************)
(* removeComments.                                                         *)
(***************************************************************************)
RECURSIVE removeCommentsFrom(_, _)
\* the for loop of removeComments, entered with the given line and prevcmt
removeCommentsFrom(line, prevcmt) ==
    LET rel == Index(Slice(line, prevcmt, Len(line)), "#")
        cmt == rel + prevcmt
    IN  IF rel < 0
            THEN line
        ELSE IF cmt - 1 < 0
            \* line[cmt-1] with cmt = 0: index out of range
            THEN Panicked
        ELSE IF At(line, cmt - 1) = "\\"
            \* Allow escaping # with \#
            THEN removeCommentsFrom(
                     Slice(line, 0, cmt - 1) \o Slice(line, cmt, Len(line)), cmt)
            \* Found comment
            ELSE Slice(line, 0, cmt)

\* removeComments without the escape: the line is cut at its first #
removeCommentsNoEscape(line) ==
    IF Index(line, "#") < 0 THEN line ELSE Slice(line, 0, Index(line, "#"))

removeComments(line) == removeCommentsFrom(line, 0)

(***************************************************************************)
(* collapseWhitespace.                                                     *)
(***************************************************************************)
\* the state of the loop before its first iteration
cwInit == [nl |-> <<>>, prevSpace |-> FALSE, panic |-> FALSE]

\* cwSpace that never remembers the space it has just written: runs are kept
cwSpaceNoCollapse(line, i, st) ==
    [st EXCEPT !.nl = IF i # Len(line) - 1 THEN st.nl \o <<" ">> ELSE st.nl]

\* cwSpace that forgets the run after dropping one character of it: every
\* second character of a run is kept
cwSpaceHalving(line, i, st) ==
    IF st.prevSpace
        THEN IF At(line, i - 1) = "\\"
                 THEN [st EXCEPT !.nl = st.nl \o <<At(line, i)>>]
                 ELSE [st EXCEPT !.prevSpace = FALSE]
        ELSE [st EXCEPT !.prevSpace = TRUE,
                        !.nl = IF i # Len(line) - 1 THEN st.nl \o <<" ">>
                                                    ELSE st.nl]

\* the switch on a whitespace character
cwSpace(line, i, st) ==
    IF st.prevSpace
        THEN \* Escaped with \: "\ "
             IF At(line, i - 1) = "\\"
                 THEN [st EXCEPT !.nl = st.nl \o <<At(line, i)>>]
                 ELSE st
        ELSE [st EXCEPT !.prevSpace = TRUE,
                        !.nl = IF i # Len(line) - 1 THEN st.nl \o <<" ">>
                                                    ELSE st.nl]

\* the switch on a backslash: line[i-1] with i = 0 is out of range
cwBackslash(line, i, st) ==
    IF i - 1 < 0
        THEN [st EXCEPT !.panic = TRUE]
    ELSE IF At(line, i - 1) = "\\"
        THEN [st EXCEPT !.nl = st.nl \o <<"\\">>]
        ELSE st

\* one iteration of the loop, on the character at offset i
cwStep(line, i, st) ==
    IF At(line, i) = "\\" THEN cwBackslash(line, i, st)
    ELSE IF IsSpace(At(line, i)) THEN cwSpace(line, i, st)
    ELSE [st EXCEPT !.nl = st.nl \o <<At(line, i)>>, !.prevSpace = FALSE]

RECURSIVE cwLoop(_, _, _)
cwLoop(line, i, st) ==
    IF i >= Len(line) THEN st.nl
    ELSE LET nx == cwStep(line, i, st)
         IN  IF nx.panic THEN Panicked ELSE cwLoop(line, i + 1, nx)

collapseWhitespace(line) == cwLoop(line, 0, cwInit)

(***************************************************************************)
(* The physical lines the model reads.                                     *)
(***************************************************************************)
Alphabet == {"a", " ", "\t", "#", "\\"}

\* every line over Alphabet of at most MaxLen characters
ShortLines == UNION {[1..n -> Alphabet] : n \in 0..MaxLen}

LnEscapedHash  == <<"k","e","y"," ","a"," ","\\","#"," ","b">>
LnPlainHash    == <<"k","e","y"," ","a"," ","#"," ","b">>
LnSpacesA      == <<"k","e","y"," ","v","a","l","u","e","1"," "," "," ",
                    "v","a","l","u","e","2">>
LnSpacesB      == <<"k","e","y"," "," ","v","a","l","u","e","1"," ",
                    "v","a","l","u","e","2">>
LnTrailComment == <<"k","e","y"," ","v","a","l","u","e"," "," "," ","#"," ",
                    "c","o","m","m","e","n","t">>
LnTabs         == <<"k","e","y","\t"," ","a","\t","\t","b">>

LinePool == ShortLines \cup
    {LnEscapedHash, LnPlainHash, LnSpacesA, LnSpacesB, LnTrailComment, LnTabs}

(***************************************************************************)
(* Files.  A file is the sequence of its physical lines.                   *)
(***************************************************************************)
PKey        == <<"k","e","y"," ","v","a","l","u","e","1">>
PCont       == <<" "," ","v","a","l","u","e","2">>
PTag        == <<"t","a","g"," ","a">>
PBlank      == <<>>
PComment    == <<"#"," ","c">>
PIndComment == <<" ","#"," ","c">>
PSource     == <<"s","o","u","r","c","e"," ","o">>
PIndEscape  == <<" ","\\","k">>
POtherB     == <<"b"," ","1">>
POtherC     == <<"c"," ","2">>

\* the name of the file given to readFile and Parse, and of the file the
\* source directive PSource names
MainName  == <<"c","f","g">>
OtherName == <<"o">>

\* the content of a file that does not exist
Missing == << <<"!missing">> >>

ReadPool ==
    {PKey, PCont, PTag, PBlank, PComment, PIndComment, PSource, PIndEscape,
     LnTrailComment}

\* the files of at most n lines over a pool of lines
FilesOver(pool, n) == UNION {[1..k -> pool] : k \in 0..n}

\* what the file "o" may hold: it holds no source directive itself (readFile
\* does not detect a cycle of source directives, it recurses until the stack
\* is exhausted)
OtherFiles ==
    {Missing, <<>>, <<POtherB>>, <<POtherB, POtherC>>,
     <<PComment, POtherB, PCont>>, <<PCont>>}

VARIABLES
    \* SpecLine: one physical line through lines 306-316 of readFile
    raw,        \* scanner.Text()
    lpc,        \* where the line is: "scan", "cmt", "ws", "done", "skipped", "panic"
    trimmed,    \* line after strings.TrimSpace
    nocmt,      \* removeComments(line)
    norm,       \* collapseWhitespace(removeComments(line))
    \* SpecRead and Spec: the file system and readFile's loop
    main,       \* the content of the file MainName
    other,      \* the content of the file OtherName
    rf,         \* readFile's locals and how it ended
    \* Spec: Parse(&config, MainName, handlers)
    handlers,   \* the Handlers argument: nil, or the field names it maps
    typeHandlers, \* the registered type handlers, by type name
    kind,       \* values.Kind() of the destination: "struct", "map", "int"
    pc,         \* where Parse is: "start", "bind", "done", "panic"
    idx,        \* the position of the range loop in lines, from 1
    config,     \* the destination struct
    returnErr,  \* what Parse returns, Nil before it has returned
    calls,      \* the handler invocations made so far, in order
    \* SpecName: fieldNameFromKey(nkey, values)
    nkey,       \* the key
    npc,        \* "call" before the call, "done" after it, "idle"
    nname,      \* what fieldNameFromKey returned: the name and the error
    \* SpecFind: FindConfig(fname)
    xdg,        \* os.Getenv("XDG_CONFIG"), <<>> when unset
    home,       \* os.Getenv("HOME"), <<>> when unset
    fname,      \* the file argument
    exists,     \* the paths of the file system, each in its cleaned form
    fpc,        \* "call" before the call, "done" after it, "idle"
    found,      \* what FindConfig returned
    \* SpecConfig: parseConfig(opts) of godocgen
    cfile,      \* the file opts.config names: what its lines say, or invalid
    optSkip,    \* opts.skipClone
    envUser,    \* os.Getenv("GITHUB_USER"), "" when unset or empty
    envPass,    \* os.Getenv("GITHUB_PASS"), "" when unset or empty
    cpc,        \* "parse", "env", "done", "idle"
    cres,       \* c, and what parseConfig returns: a nil config or &c, and err
    \* SpecPage: hubhub.Paginate(&scan, uri, 0), as listRepos calls it
    srv,        \* the pages of the server: srv[k] is the items of page k
    upage,      \* the page parameter of the uri given to Paginate, 0: none
    pi,         \* i of the loop
    scan,       \* the slice scan points to
    errs,       \* errs
    reqs,       \* the page parameter of each request sent, 0: none
    ppc,        \* "loop", "ret", "done", "idle"
    pret,       \* what Paginate returned
    \* SpecHome: makeHome(c, packages) of godocgen
    hgroups,    \* c.Groups
    nonGrouped, \* c.NonGrouped
    hpkgs,      \* packages: the RelImportPath of each
    hother,     \* other
    hi,         \* the position of the range loop in packages, from 1
    hpc,        \* "other", "add", "write", "done", "panic", "idle"
    hret,       \* what makeHome returned
    hwrote,     \* whether the home page has been written
    \* SpecList: list(c) of godocgen from the sort on
    packages,   \* packages: the FullImportPath and the Depth of each
    listI,      \* i of the loop over packages, from 0
    listpc,     \* "sort", "depth", "done", "idle"
    \* SpecGo: hubhub.Paginate(&scan, uri, nPages) with nPages > 0, on the
    \* variables of SpecPage and these
    nPages,     \* nPages, 0 in every other specification
    gpc,        \* where the goroutine of getPage(i) is, for each i
    own,        \* what Request returned to each goroutine: "ok", "fail"
    lock,       \* the goroutine that holds lock, 0: none
    wg,         \* the counter of wg
    perr        \* err, the variable of Paginate that getPage assigns

lineVars == <<raw, lpc, trimmed, nocmt, norm>>
readVars == <<main, other, rf>>
parseVars == <<handlers, typeHandlers, kind, pc, idx, config, returnErr, calls>>

nameVars == <<nkey, npc, nname>>

findVars == <<xdg, home, fname, exists, fpc, found>>

confVars == <<cfile, optSkip, envUser, envPass, cpc, cres>>

pageVars == <<srv, upage, pi, scan, errs, reqs, ppc, pret>>

homeVars == <<hgroups, nonGrouped, hpkgs, hother, hi, hpc, hret, hwrote>>

listVars == <<packages, listI, listpc>>

goVars == <<nPages, gpc, own, lock, wg, perr>>

vars == <<lineVars, readVars, parseVars, nameVars, findVars, confVars,
          pageVars, homeVars, listVars, goVars>>

(***************************************************************************)
(* readFile.                                                               *)
(***************************************************************************)
Nil == <<>>

RECURSIVE Itoa(_)
\* fmt.Sprintf("%d", n), n >= 0
Itoa(n) ==
    LET digit == <<"0","1","2","3","4","5","6","7","8","9">>[(n % 10) + 1]
    IN  IF n < 10 THEN <<digit>> ELSE Itoa(n \div 10) \o <<digit>>

ErrIndented  == <<"first line can't be indented">>
ErrIndexRange == <<"runtime error: index out of range">>
ErrOpen(name) == <<"open ">> \o name \o <<": no such file or directory">>

\* os.Open's view of the file system
fsRead(name) ==
    IF name = MainName THEN main
    ELSE IF name = OtherName THEN other
    ELSE Missing

\* readFile's locals before the loop; status is "open" before os.Open, "run"
\* in the loop, then "ok" (lines, nil returned), "err" (err returned) or
\* "panic"
rfInit == [lines |-> <<>>, i |-> 0, no |-> 0, err |-> Nil, status |-> "run"]

\* the skip test without the comment test
isSkippedEmptyOnly(line) == line = <<>>

\* the skip test that lets every line through
isSkippedNever(line) == FALSE

\* line 312: whether readFile skips the trimmed line (empty, or a comment)
isSkipped(line) == line = <<>> \/ line[1] = "#"

\* lines 318-324 with the space forgotten
continueEntryNoSpace(st, line) ==
    IF st.i = 0
        THEN [st EXCEPT !.err = ErrIndented, !.status = "err"]
    ELSE IF st.i - 1 >= Len(st.lines)
        THEN [st EXCEPT !.err = ErrIndexRange, !.status = "panic"]
    ELSE [st EXCEPT !.lines[st.i][2] = @ \o line]

\* lines 318-324: an indented line
continueEntry(st, line) ==
    IF st.i = 0
        THEN [st EXCEPT !.err = ErrIndented, !.status = "err"]
    ELSE IF st.i - 1 >= Len(st.lines)
        \* lines[i-1] past the end of lines
        THEN [st EXCEPT !.err = ErrIndexRange, !.status = "panic"]
    \* lines[i-1][1] += " " + line
    ELSE [st EXCEPT !.lines[st.i][2] = @ \o <<" ">> \o line]

\* a new entry that carries its position among the entries, not the number
\* of its line
emitEntryNumbersEntries(st, line) ==
    [st EXCEPT !.lines = Append(@, <<Itoa(st.i + 1), line>>), !.i = @ + 1]

\* line 334 and 336: a new entry
emitEntry(st, line) ==
    [st EXCEPT !.lines = Append(@, <<Itoa(st.no), line>>), !.i = @ + 1]

\* lines 329-332 and 336 with the sourced entries put first
spliceSourcedFirst(st, sourced) ==
    IF sourced.status = "panic"
        THEN [st EXCEPT !.err = sourced.err, !.status = "panic"]
    ELSE IF sourced.err # Nil
        THEN [st EXCEPT !.lines = <<>>, !.err = sourced.err, !.status = "err"]
    ELSE [st EXCEPT !.lines = sourced.lines \o @, !.i = @ + 1]

\* lines 329-332 and 336: what the nested readFile returned
spliceSourced(st, sourced) ==
    IF sourced.status = "panic"
        THEN [st EXCEPT !.err = sourced.err, !.status = "panic"]
    ELSE IF sourced.err # Nil
        \* return nil, err
        THEN [st EXCEPT !.lines = <<>>, !.err = sourced.err, !.status = "err"]
    ELSE [st EXCEPT !.lines = @ \o sourced.lines, !.i = @ + 1]

SourcePrefix == <<"s","o","u","r","c","e"," ">>

RECURSIVE readFile(_)

\* the body of the loop, lines 305-337, on the physical line raw
scanStep(st, raw0) ==
    LET st1 == [st EXCEPT !.no = @ + 1]
        isIndented == Len(raw0) > 0 /\ IsSpace(At(raw0, 0))
        line0 == TrimSpace(raw0)
        nc == removeComments(line0)
        line == IF nc = Panicked THEN Panicked ELSE collapseWhitespace(nc)
    IN  IF isSkipped(line0) THEN st1
        ELSE IF line = Panicked
            THEN [st1 EXCEPT !.err = ErrIndexRange, !.status = "panic"]
        ELSE IF isIndented THEN continueEntry(st1, line)
        ELSE IF HasPrefix(line, SourcePrefix)
            THEN spliceSourced(st1, readFile(Slice(line, 7, Len(line))))
        ELSE emitEntry(st1, line)

RECURSIVE readLoop(_, _)
\* the loop over the lines of content that the scanner has not returned yet
readLoop(content, st) ==
    IF st.status # "run" THEN st
    ELSE IF st.no >= Len(content) THEN [st EXCEPT !.status = "ok"]
    ELSE readLoop(content, scanStep(st, content[st.no + 1]))

\* lines 296-299
openFile(name) ==
    IF fsRead(name) = Missing
        THEN [rfInit EXCEPT !.err = ErrOpen(name), !.status = "err"]
        ELSE rfInit

readFile(name) == readLoop(fsRead(name), openFile(name))

(***************************************************************************)
(* Field names: what fieldNameFromKey builds the name from.                *)
(***************************************************************************)
LowerLetters ==
    <<"a","b","c","d","e","f","g","h","i","j","k","l","m","n",
      "o","p","q","r","s","t","u","v","w","x","y","z">>
UpperLetters ==
    <<"A","B","C","D","E","F","G","H","I","J","K","L","M","N",
      "O","P","Q","R","S","T","U","V","W","X","Y","Z">>

\* unicode.ToUpper and unicode.ToLower, on ASCII
ToUpperChar(c) ==
    IF \E k \in 1..26 : LowerLetters[k] = c
        THEN UpperLetters[CHOOSE k \in 1..26 : LowerLetters[k] = c]
        ELSE c
ToLowerChar(c) ==
    IF \E k \in 1..26 : UpperLetters[k] = c
        THEN LowerLetters[CHOOSE k \in 1..26 : UpperLetters[k] = c]
        ELSE c

\* strings.ToUpper
ToUpper(s) == [k \in 1..Len(s) |-> ToUpperChar(s[k])]

RECURSIVE ReplaceAll(_, _, _)
\* strings.Replace(s, old, new, -1), old not empty
ReplaceAll(s, old, new) ==
    IF Len(s) < Len(old) THEN s
    ELSE IF HasPrefix(s, old)
        THEN new \o ReplaceAll(SubSeq(s, Len(old) + 1, Len(s)), old, new)
    ELSE <<Head(s)>> \o ReplaceAll(Tail(s), old, new)

RECURSIVE camelizeFrom(_, _)
\* inflect.camelize: the words of the key, separated by "-", "_", ":" or " ",
\* each with its first letter in upper case and the others in lower case
camelizeFrom(s, first) ==
    IF s = <<>> THEN <<>>
    ELSE IF Head(s) \in {"-", "_", ":", " "} THEN camelizeFrom(Tail(s), TRUE)
    ELSE <<IF first THEN ToUpperChar(Head(s)) ELSE ToLowerChar(Head(s))>>
             \o camelizeFrom(Tail(s), FALSE)

camelize(word) == camelizeFrom(word, TRUE)

\* inflect.togglePlural: the trailing "s" removed, or added
togglePlural(word) ==
    IF word # <<>> /\ word[Len(word)] = "s"
        THEN SubSeq(word, 1, Len(word) - 1)
        ELSE word \o <<"s">>

\* This list is from golint
Acronyms == <<
    <<"A","p","i">>, <<"A","s","c","i","i">>, <<"C","p","u">>,
    <<"C","s","s">>, <<"D","n","s">>, <<"E","o","f">>, <<"G","u","i","d">>,
    <<"H","t","m","l">>, <<"H","t","t","p","s">>, <<"H","t","t","p">>,
    <<"I","d">>, <<"I","p">>, <<"J","s","o","n">>, <<"L","h","s">>,
    <<"Q","p","s">>, <<"R","a","m">>, <<"R","h","s">>, <<"R","p","c">>,
    <<"S","l","a">>, <<"S","m","t","p">>, <<"S","q","l">>, <<"S","s","h">>,
    <<"T","c","p">>, <<"T","l","s">>, <<"T","t","l">>, <<"U","d","p">>,
    <<"U","i">>, <<"U","i","d">>, <<"U","u","i","d">>, <<"U","r","i">>,
    <<"U","r","l">>, <<"U","t","f","8">>, <<"V","m">>, <<"X","m","l">>,
    <<"X","s","r","f">>, <<"X","s","s">> >>

RECURSIVE upperAcronyms(_, _)
\* lines 541-543, from the k-th acronym on
upperAcronyms(fieldName, k) ==
    IF k > Len(Acronyms) THEN fieldName
    ELSE upperAcronyms(
             ReplaceAll(fieldName, Acronyms[k], ToUpper(Acronyms[k])), k + 1)

(***************************************************************************)
(* The destination of Parse and the handlers.                              *)
(***************************************************************************)
PNope  == <<"n","o","p","e"," ","1">>
POtherTag == <<"t","a","g"," ","b">>

FKey  == <<"K","e","y">>
FTags == <<"T","a","g","s">>
FNope == <<"N","o","p","e">>

\* the names of the acronyms in capitals
AcronymFields == {ToUpper(Acronyms[k]) : k \in 1..Len(Acronyms)}

\* the fields of the struct Parse fills: Key string, Tags []string, and one
\* string field named by each acronym in capitals (API, ..., UID, ..., XSS)
Fields == {FKey, FTags} \cup AcronymFields

\* field.Type().String()
FieldType(f) == IF f = FTags THEN "[]string" ELSE "string"

\* the struct before Parse: every field has its zero value
Config0 == [f \in Fields |-> <<>>]

\* the map before Parse: map[string][]string{}
Map0 == <<>>

\* the value of the field named f
FieldGet(cfg, f) == cfg[f]

\* field.Set(val)
FieldSet(cfg, f, val) == [cfg EXCEPT ![f] = val]

\* SetMapIndex that leaves a key that is set alone
SetMapIndexKeepFirst(m, key, val) ==
    [k \in DOMAIN m \cup {key} |-> IF k \in DOMAIN m THEN m[k] ELSE val]

\* values.SetMapIndex(mapKey, reflect.ValueOf(v[1:]))
SetMapIndex(m, key, val) ==
    [k \in DOMAIN m \cup {key} |-> IF k = key THEN val ELSE m[k]]

\* the Handlers argument: nil, or a map with a handler for the field Key and
\* one under the name Nope, which is no field
HandlersNil == [nil |-> TRUE, names |-> {}]
HandlersMap == [nil |-> FALSE, names |-> {FKey, FNope}]

\* a map with a handler for the field Tags and one under the name Tag, the
\* camelized key `tag`, which is no field
FTag == <<"T","a","g">>
HandlersTags == [nil |-> FALSE, names |-> {FTags, FTag}]

\* how a field handler may end: it returns nil, returns an error, panics
\* with an error (panic(err)) or panics with another value (panic("..."))
HandlerOutcomes == {"ok", "err", "panicErr", "panicStr"}
ErrHandler == <<"handler failed">>
ErrHandlerPanic == <<"handler panicked">>

\* the registered type handlers: RegisterType("string", validateSingle, join)
\* and RegisterType("[]string", list)
TypeHandlers == [t \in {"string", "[]string"} |->
                    IF t = "string" THEN <<"validateSingle", "join">>
                                    ELSE <<"list">>]

\* RegisterType(typ, fun...): typeHandlers[typ] = fun
RegisterType(reg, typ, fun) ==
    [t \in DOMAIN reg \cup {typ} |-> IF t = typ THEN fun ELSE reg[t]]

\* the registry after the caller's RegisterType("[]string", upper, list),
\* upper being a handler of the caller that returns the values in capitals
TypeHandlersUpper == RegisterType(TypeHandlers, "[]string", <<"upper", "list">>)

ErrNotSingle == <<"must have exactly one value">>

\* the error a type handler returns for the values, Nil when it returns none
TypeHandlerErr(h, values) ==
    IF h = "validateSingle" /\ Len(values) # 1 THEN ErrNotSingle ELSE Nil

\* the value a type handler returns for the values
TypeHandlerVal(h, values) ==
    IF h = "join" THEN Join(values, <<" ">>)
    ELSE IF h = "upper" THEN [k \in 1..Len(values) |-> ToUpper(values[k])]
    ELSE values

(***************************************************************************)
(* fieldNameFromKey.                                                       *)
(***************************************************************************)
ErrUnknownOption(fieldName, fieldNamePlural) ==
    <<"unknown option", " (field ">> \o fieldName \o <<" or ">>
        \o fieldNamePlural \o <<" is missing)">>

\* fieldNameFromKey(key, values): the field name, or the error
fieldNameFromKey(key) ==
    LET fieldName == upperAcronyms(camelize(key), 1)
        fieldNamePlural == togglePlural(fieldName)
    IN  IF fieldName \in Fields THEN [name |-> fieldName, err |-> Nil]
        ELSE IF fieldNamePlural \in Fields
            THEN [name |-> fieldNamePlural, err |-> Nil]
        ELSE [name |-> <<>>,
              err |-> ErrUnknownOption(fieldName, fieldNamePlural)]

(***************************************************************************)
(* Parse.                                                                  *)
(***************************************************************************)
\* var DontPanic = true
DontPanic == TRUE

\* fmterr without the file name
fmterrNoFile(file, line, key, err) ==
    <<"line ">> \o line \o <<": error parsing ">> \o key \o <<": ">> \o err

\* fmt.Errorf("%v line %v: error parsing %s: %v", file, line, key, err)
fmterr(file, line, key, err) ==
    file \o <<" line ">> \o line \o <<": error parsing ">> \o key
         \o <<": ">> \o err

\* the deferred function of Parse, lines 431-442, on a panic of the kind p:
\* a panic whose value is an error ("error") is recovered and returned as
\* Parse's error; one with any other value ("value") is panicked again
recovers(p) == DontPanic /\ p = "error"

\* a handler invocation, as calls records it: the handler, its argument, the
\* entry it is made for and how it ended (a member of HandlerOutcomes)
Call(kind_, name, args, n, end) ==
    [kind |-> kind_, name |-> name, args |-> args, entry |-> n, end |-> end]

\* setFromHandler that reports no handler when the handler returned nil
setFromHandlerFallsThrough(fieldName, values, hs, outcome, n) ==
    IF hs.nil \/ fieldName \notin hs.names
        THEN [has |-> FALSE, err |-> Nil, calls |-> <<>>, panic |-> "none"]
        ELSE [has |-> outcome # "ok",
              err |-> IF outcome = "err"
                          THEN ErrHandler \o <<" (from handler)">>
                      ELSE IF outcome = "panicErr" THEN ErrHandlerPanic
                      ELSE Nil,
              calls |-> <<Call("field", fieldName, values, n, outcome)>>,
              panic |-> IF outcome = "panicErr" THEN "error"
                        ELSE IF outcome = "panicStr" THEN "value" ELSE "none"]

\* setFromHandler(fieldName, values, handlers); the handler, when there is
\* one, ends as outcome says; n is the entry the call is made for.  When the
\* handler panics, so does setFromHandler: panic is the kind of the value
\* and err the value
setFromHandler(fieldName, values, hs, outcome, n) ==
    IF hs.nil
        THEN [has |-> FALSE, err |-> Nil, calls |-> <<>>, panic |-> "none"]
    ELSE IF fieldName \notin hs.names
        THEN [has |-> FALSE, err |-> Nil, calls |-> <<>>, panic |-> "none"]
    ELSE IF outcome = "panicErr"
        THEN [has |-> TRUE, err |-> ErrHandlerPanic,
              calls |-> <<Call("field", fieldName, values, n, outcome)>>,
              panic |-> "error"]
    ELSE IF outcome = "panicStr"
        THEN [has |-> TRUE, err |-> Nil,
              calls |-> <<Call("field", fieldName, values, n, outcome)>>,
              panic |-> "value"]
    ELSE IF outcome = "err"
        THEN [has |-> TRUE, err |-> ErrHandler \o <<" (from handler)">>,
              calls |-> <<Call("field", fieldName, values, n, outcome)>>,
              panic |-> "none"]
    ELSE [has |-> TRUE, err |-> Nil,
          calls |-> <<Call("field", fieldName, values, n, outcome)>>,
          panic |-> "none"]

RECURSIVE runChainGoesOn(_, _, _, _, _)
\* the chain run to its end whatever a handler returns; the first error is
\* the one returned
runChainGoesOn(chain, k, value, v, n) ==
    IF k > Len(chain) THEN [v |-> v, err |-> Nil, calls |-> <<>>]
    ELSE LET e == TypeHandlerErr(chain[k], value)
             c == <<Call("type", <<chain[k]>>, value, n,
                         IF e = Nil THEN "ok" ELSE "err")>>
             rest == runChainGoesOn(chain, k + 1, value,
                                    TypeHandlerVal(chain[k], value), n)
         IN  [rest EXCEPT !.calls = c \o @,
                          !.err = IF e # Nil THEN e ELSE @]

RECURSIVE runChain(_, _, _, _, _)
\* lines 588-593, from the k-th handler of the chain on; v is the value the
\* handler before returned; every handler is called with value
runChain(chain, k, value, v, n) ==
    IF k > Len(chain) THEN [v |-> v, err |-> Nil, calls |-> <<>>]
    ELSE LET e == TypeHandlerErr(chain[k], value)
             c == <<Call("type", <<chain[k]>>, value, n,
                         IF e = Nil THEN "ok" ELSE "err")>>
             rest == runChain(chain, k + 1, value,
                              TypeHandlerVal(chain[k], value), n)
         IN  IF e # Nil THEN [v |-> v, err |-> e, calls |-> c]
             ELSE [rest EXCEPT !.calls = c \o @]

\* setFromTypeHandler that sets a slice field to the handlers' value
setFromTypeHandlerReplace(cfg, fieldName, value, n) ==
    IF FieldType(fieldName) \notin DOMAIN typeHandlers
        THEN [has |-> FALSE, err |-> Nil, calls |-> <<>>, config |-> cfg]
    ELSE LET r == runChain(typeHandlers[FieldType(fieldName)], 1, value, <<>>, n)
         IN  [has |-> TRUE, err |-> r.err, calls |-> r.calls,
              config |-> IF r.err # Nil THEN cfg
                         ELSE FieldSet(cfg, fieldName, r.v)]

\* setFromTypeHandler(&field, value), on the field named fieldName of cfg
setFromTypeHandler(cfg, fieldName, value, n) ==
    IF FieldType(fieldName) \notin DOMAIN typeHandlers
        THEN [has |-> FALSE, err |-> Nil, calls |-> <<>>, config |-> cfg]
    ELSE LET r == runChain(typeHandlers[FieldType(fieldName)], 1, value, <<>>, n)
         IN  IF r.err # Nil
                 THEN [has |-> TRUE, err |-> r.err, calls |-> r.calls,
                       config |-> cfg]
             ELSE [has |-> TRUE, err |-> Nil, calls |-> r.calls,
                   config |->
                       IF FieldType(fieldName) = "[]string"
                           \* reflect.AppendSlice(*field, val)
                           THEN FieldSet(cfg, fieldName,
                                         FieldGet(cfg, fieldName) \o r.v)
                           ELSE FieldSet(cfg, fieldName, r.v)]

ErrDontKnow(typ) == <<"don't know how to set fields of the type ", typ>>
ErrUnknownType(k) == <<"unknown type: ", k>>

\* the loop body for a struct with the field handler looked up first, under
\* the camelized key, before the key is resolved to a field
bindStructHandlerFirst(cfg, line, v, hs, outcome, n) ==
    LET fn == fieldNameFromKey(v[1])
        h0 == setFromHandler(upperAcronyms(camelize(v[1]), 1), Tail(v), hs,
                             outcome, n)
        t == setFromTypeHandler(cfg, fn.name, Tail(v), n)
    IN  IF h0.panic # "none"
            THEN [config |-> cfg, calls |-> h0.calls, panic |-> h0.panic,
                  err |-> h0.err]
        ELSE IF h0.has
            THEN [config |-> cfg, calls |-> h0.calls, panic |-> "none",
                  err |-> IF h0.err # Nil
                              THEN fmterr(MainName, line[1], v[1], h0.err)
                              ELSE Nil]
        ELSE IF fn.err # Nil
            THEN [config |-> cfg, calls |-> <<>>, panic |-> "none",
                  err |-> fmterr(MainName, line[1], v[1], fn.err)]
        ELSE IF t.has
            THEN [config |-> t.config, calls |-> t.calls, panic |-> "none",
                  err |-> IF t.err # Nil
                              THEN fmterr(MainName, line[1], v[1], t.err)
                              ELSE Nil]
        ELSE [config |-> cfg, calls |-> <<>>, panic |-> "none",
              err |-> fmterr(MainName, line[1], v[1],
                             ErrDontKnow(FieldType(fn.name)))]

\* the body of the range loop of Parse for a struct, lines 469-501, on the
\* n-th entry, v being the tokens of the line
bindStruct(cfg, line, v, hs, outcome, n) ==
    LET fn == fieldNameFromKey(v[1])
        h == setFromHandler(fn.name, Tail(v), hs, outcome, n)
        t == setFromTypeHandler(cfg, fn.name, Tail(v), n)
    IN  IF fn.err # Nil
            THEN [config |-> cfg, calls |-> <<>>, panic |-> "none",
                  err |-> fmterr(MainName, line[1], v[1], fn.err)]
        ELSE IF h.panic # "none"
            THEN [config |-> cfg, calls |-> h.calls, panic |-> h.panic,
                  err |-> h.err]
        ELSE IF h.has
            THEN [config |-> cfg, calls |-> h.calls, panic |-> "none",
                  err |-> IF h.err # Nil
                              THEN fmterr(MainName, line[1], v[1], h.err)
                              ELSE Nil]
        ELSE IF t.has
            THEN [config |-> t.config, calls |-> h.calls \o t.calls,
                  panic |-> "none",
                  err |-> IF t.err # Nil
                              THEN fmterr(MainName, line[1], v[1], t.err)
                              ELSE Nil]
        ELSE [config |-> cfg, calls |-> h.calls, panic |-> "none",
              err |-> fmterr(MainName, line[1], v[1],
                             ErrDontKnow(FieldType(fn.name)))]

\* the loop body for a struct that puts the struct back to its zero value
\* when the entry fails
bindStepRollback(cfg, k, line, hs, outcome, n) ==
    LET v == Split(line[2], " ")
        r == bindStruct(cfg, line, v, hs, outcome, n)
    IN  IF k = "map"
            THEN [config |-> SetMapIndex(cfg, v[1], Tail(v)), calls |-> <<>>,
                  panic |-> "none", err |-> Nil]
        ELSE IF k = "struct"
            THEN IF r.err # Nil THEN [r EXCEPT !.config = Config0] ELSE r
        ELSE [config |-> cfg, calls |-> <<>>, panic |-> "none",
              err |-> ErrUnknownType(k)]

\* the body of the range loop of Parse, lines 453-501, on the n-th entry:
\* the destination, the calls made, the error returned (Nil: the loop goes
\* on) and the panic raised; k is values.Kind()
bindStep(cfg, k, line, hs, outcome, n) ==
    LET v == Split(line[2], " ")
    IN  IF k = "map"
            THEN [config |-> SetMapIndex(cfg, v[1], Tail(v)), calls |-> <<>>,
                  panic |-> "none", err |-> Nil]
        ELSE IF k = "struct"
            THEN bindStruct(cfg, line, v, hs, outcome, n)
        ELSE [config |-> cfg, calls |-> <<>>, panic |-> "none",
              err |-> ErrUnknownType(k)]

(***************************************************************************)
(* SpecLine: readFile's treatment of one physical line.                    *)
(***************************************************************************)
GoIdle ==
    /\ nPages = 0
    /\ gpc = <<>>
    /\ own = <<>>
    /\ lock = 0
    /\ wg = 0
    /\ perr = <<>>

ListIdle ==
    /\ packages = <<>>
    /\ listI = 0
    /\ listpc = "idle"

HomeIdle ==
    /\ hgroups = <<>>
    /\ nonGrouped = <<>>
    /\ hpkgs = <<>>
    /\ hother = -1
    /\ hi = 0
    /\ hpc = "idle"
    /\ hret = <<>>
    /\ hwrote = FALSE

PageIdle ==
    /\ srv = <<>>
    /\ upage = 0
    /\ pi = 0
    /\ scan = <<>>
    /\ errs = <<>>
    /\ reqs = <<>>
    /\ ppc = "idle"
    /\ pret = Nil

\* c := Config{}, of which the model keeps User, Pass and SkipClone
ConfigZero == [User |-> "", Pass |-> "", SkipClone |-> FALSE]

ConfIdle ==
    /\ cfile = [valid |-> FALSE]
    /\ optSkip = FALSE
    /\ envUser = ""
    /\ envPass = ""
    /\ cpc = "idle"
    /\ cres = [c |-> ConfigZero, isnil |-> TRUE, err |-> Nil]

FindIdle ==
    /\ xdg = <<>>
    /\ home = <<>>
    /\ fname = <<>>
    /\ exists = {}
    /\ fpc = "idle"
    /\ found = <<>>

NameIdle ==
    /\ nkey = <<>>
    /\ npc = "idle"
    /\ nname = [name |-> <<>>, err |-> Nil]

ReadIdle ==
    /\ main = <<>>
    /\ other = <<>>
    /\ rf = rfInit

LineInit ==
    /\ raw \in LinePool
    /\ lpc = "scan"
    /\ trimmed = <<>>
    /\ nocmt = <<>>
    /\ norm = <<>>

LineIdle ==
    /\ raw = <<>>
    /\ lpc = "idle"
    /\ trimmed = <<>>
    /\ nocmt = <<>>
    /\ norm = <<>>

\* lines 306-314: trim, skip empty lines and comments
LTrim ==
    /\ lpc = "scan"
    /\ trimmed' = TrimSpace(raw)
    /\ lpc' = IF isSkipped(TrimSpace(raw)) THEN "skipped" ELSE "cmt"
    /\ UNCHANGED <<raw, nocmt, norm>>
    /\ UNCHANGED readVars
    /\ UNCHANGED parseVars
    /\ UNCHANGED nameVars
    /\ UNCHANGED findVars
    /\ UNCHANGED confVars
    /\ UNCHANGED pageVars
    /\ UNCHANGED homeVars
    /\ UNCHANGED listVars
    /\ UNCHANGED goVars

\* line 316, the inner call
LRemoveComments ==
    /\ lpc = "cmt"
    /\ nocmt' = removeComments(trimmed)
    /\ lpc' = IF removeComments(trimmed) = Panicked THEN "panic" ELSE "ws"
    /\ UNCHANGED <<raw, trimmed, norm>>
    /\ UNCHANGED readVars
    /\ UNCHANGED parseVars
    /\ UNCHANGED nameVars
    /\ UNCHANGED findVars
    /\ UNCHANGED confVars
    /\ UNCHANGED pageVars
    /\ UNCHANGED homeVars
    /\ UNCHANGED listVars
    /\ UNCHANGED goVars

\* line 316, the outer call
LCollapse ==
    /\ lpc = "ws"
    /\ norm' = collapseWhitespace(nocmt)
    /\ lpc' = IF collapseWhitespace(nocmt) = Panicked THEN "panic" ELSE "done"
    /\ UNCHANGED <<raw, trimmed, nocmt>>
    /\ UNCHANGED readVars
    /\ UNCHANGED parseVars
    /\ UNCHANGED nameVars
    /\ UNCHANGED findVars
    /\ UNCHANGED confVars
    /\ UNCHANGED pageVars
    /\ UNCHANGED homeVars
    /\ UNCHANGED listVars
    /\ UNCHANGED goVars

LineNext == LTrim \/ LRemoveComments \/ LCollapse

ParseIdle ==
    /\ handlers = HandlersNil
    /\ typeHandlers = TypeHandlers
    /\ kind = "struct"
    /\ pc = "idle"
    /\ idx = 0
    /\ config = Config0
    /\ returnErr = Nil
    /\ calls = <<>>

InitLine == LineInit /\ ReadIdle /\ ParseIdle /\ NameIdle /\ FindIdle /\ ConfIdle /\ PageIdle /\ HomeIdle /\ ListIdle /\ GoIdle

SpecLine == InitLine /\ [][LineNext]_vars

(***************************************************************************)
(* SpecRead: readFile(MainName), one physical line at a time.              *)
(***************************************************************************)
ReadInit ==
    /\ main \in FilesOver(ReadPool, MaxLines) \cup {Missing}
    /\ other \in OtherFiles
    /\ rf = [rfInit EXCEPT !.status = "open"]

\* lines 296-299: os.Open
ROpen ==
    /\ rf.status = "open"
    /\ rf' = openFile(MainName)
    /\ UNCHANGED <<main, other>>
    /\ UNCHANGED lineVars
    /\ UNCHANGED parseVars
    /\ UNCHANGED nameVars
    /\ UNCHANGED findVars
    /\ UNCHANGED confVars
    /\ UNCHANGED pageVars
    /\ UNCHANGED homeVars
    /\ UNCHANGED listVars
    /\ UNCHANGED goVars

\* one iteration of the loop: scanner.Scan() returned a line
RScan ==
    /\ rf.status = "run"
    /\ rf.no < Len(main)
    /\ rf' = scanStep(rf, main[rf.no + 1])
    /\ UNCHANGED <<main, other>>
    /\ UNCHANGED lineVars
    /\ UNCHANGED parseVars
    /\ UNCHANGED nameVars
    /\ UNCHANGED findVars
    /\ UNCHANGED confVars
    /\ UNCHANGED pageVars
    /\ UNCHANGED homeVars
    /\ UNCHANGED listVars
    /\ UNCHANGED goVars

\* scanner.Scan() returned false: line 340
RReturn ==
    /\ rf.status = "run"
    /\ rf.no >= Len(main)
    /\ rf' = [rf EXCEPT !.status = "ok"]
    /\ UNCHANGED <<main, other>>
    /\ UNCHANGED lineVars
    /\ UNCHANGED parseVars
    /\ UNCHANGED nameVars
    /\ UNCHANGED findVars
    /\ UNCHANGED confVars
    /\ UNCHANGED pageVars
    /\ UNCHANGED homeVars
    /\ UNCHANGED listVars
    /\ UNCHANGED goVars

ReadNext == ROpen \/ RScan \/ RReturn

InitRead == LineIdle /\ ReadInit /\ ParseIdle /\ NameIdle /\ FindIdle /\ ConfIdle /\ PageIdle /\ HomeIdle /\ ListIdle /\ GoIdle

SpecRead == InitRead /\ [][ReadNext]_vars

(***************************************************************************)
(* Spec: Parse(&config, MainName, handlers), one entry at a time.          *)
(***************************************************************************)
ParsePool == {PKey, PCont, PTag, PNope, PComment, PSource, PIndEscape}

ParseOtherFiles == {<<>>, <<POtherTag>>, <<PComment, PNope>>}

\* the calls of Parse the model makes: the Handlers argument, the registry
\* when Parse is called and the kind of the value config points to
ParseSetups ==
    {<<HandlersNil, TypeHandlers, "struct">>,
     <<HandlersMap, TypeHandlers, "struct">>,
     <<HandlersNil, TypeHandlersUpper, "struct">>,
     <<HandlersTags, TypeHandlers, "struct">>,
     <<HandlersMap, TypeHandlers, "map">>,
     <<HandlersNil, TypeHandlers, "int">>}

ParseInit ==
    /\ main \in FilesOver(ParsePool, MaxParseLines)
    \* the other file is read only when a line of the main file sources it
    /\ other \in IF \E i \in 1..Len(main) : main[i] = PSource
                     THEN ParseOtherFiles ELSE {<<>>}
    /\ rf = rfInit
    /\ \E setup \in ParseSetups :
           /\ handlers = setup[1]
           /\ typeHandlers = setup[2]
           /\ kind = setup[3]
    /\ pc = "start"
    /\ idx = 0
    /\ config = IF kind = "map" THEN Map0 ELSE Config0
    /\ returnErr = Nil
    /\ calls = <<>>

\* lines 444-449: readFile returns; its error is returned, and its panic, a
\* runtime error and so an error, is recovered and returned (lines 431-442)
\* unless DontPanic is off
PReadFile ==
    /\ pc = "start"
    /\ rf' = readFile(MainName)
    /\ IF readFile(MainName).status = "ok"
           THEN pc' = "bind" /\ idx' = 1 /\ returnErr' = Nil
       ELSE IF readFile(MainName).status = "panic" /\ ~recovers("error")
           THEN pc' = "panic" /\ idx' = 0 /\ returnErr' = Nil
       ELSE pc' = "done" /\ idx' = 0 /\ returnErr' = readFile(MainName).err
    /\ UNCHANGED <<main, other, handlers, typeHandlers, kind, config, calls>>
    /\ UNCHANGED lineVars
    /\ UNCHANGED nameVars
    /\ UNCHANGED findVars
    /\ UNCHANGED confVars
    /\ UNCHANGED pageVars
    /\ UNCHANGED homeVars
    /\ UNCHANGED listVars
    /\ UNCHANGED goVars

\* one iteration of the range loop, lines 452-502, and the deferred function
\* when the iteration panics
PBind ==
    /\ pc = "bind"
    /\ idx <= Len(rf.lines)
    /\ \E outcome \in HandlerOutcomes :
           LET r == bindStep(config, kind, rf.lines[idx], handlers, outcome,
                             idx)
           IN  /\ config' = r.config
               /\ calls' = calls \o r.calls
               /\ returnErr' = IF r.panic = "value" THEN Nil ELSE r.err
               /\ pc' = IF r.panic = "none"
                             THEN IF r.err # Nil THEN "done" ELSE "bind"
                         ELSE IF recovers(r.panic) THEN "done"
                         ELSE "panic"
    /\ idx' = idx + 1
    /\ UNCHANGED <<main, other, rf, handlers, typeHandlers, kind>>
    /\ UNCHANGED lineVars
    /\ UNCHANGED nameVars
    /\ UNCHANGED findVars
    /\ UNCHANGED confVars
    /\ UNCHANGED pageVars
    /\ UNCHANGED homeVars
    /\ UNCHANGED listVars
    /\ UNCHANGED goVars

\* line 504: the loop is over
PReturn ==
    /\ pc = "bind"
    /\ idx > Len(rf.lines)
    /\ pc' = "done"
    /\ UNCHANGED <<main, other, rf, handlers, typeHandlers, kind, idx, config,
                   returnErr, calls>>
    /\ UNCHANGED lineVars
    /\ UNCHANGED nameVars
    /\ UNCHANGED findVars
    /\ UNCHANGED confVars
    /\ UNCHANGED pageVars
    /\ UNCHANGED homeVars
    /\ UNCHANGED listVars
    /\ UNCHANGED goVars

Next == PReadFile \/ PBind \/ PReturn

Init == LineIdle /\ ParseInit /\ NameIdle /\ FindIdle /\ ConfIdle /\ PageIdle /\ HomeIdle /\ ListIdle /\ GoIdle

Spec == Init /\ [][Next]_vars

(***************************************************************************)
(* SpecName: fieldNameFromKey(nkey, values), values being the struct.      *)
(***************************************************************************)
\* strings.ToLower
ToLower(s) == [k \in 1..Len(s) |-> ToLowerChar(s[k])]

\* the acronyms of the list in lower case
AcronymKeys == {ToLower(Acronyms[k]) : k \in 1..Len(Acronyms)}

\* the keys the model resolves: every acronym in lower case, every acronym
\* in lower case with an s after it, and the keys of the files
NameKeys == AcronymKeys \cup {a \o <<"s">> : a \in AcronymKeys}
               \cup {<<"k","e","y">>, <<"t","a","g">>, <<"t","a","g","s">>,
                     <<"n","o","p","e">>}

NameInit ==
    /\ nkey \in NameKeys
    /\ npc = "call"
    /\ nname = [name |-> <<>>, err |-> Nil]

\* lines 532-558
NResolve ==
    /\ npc = "call"
    /\ nname' = fieldNameFromKey(nkey)
    /\ npc' = "done"
    /\ UNCHANGED nkey
    /\ UNCHANGED lineVars
    /\ UNCHANGED readVars
    /\ UNCHANGED parseVars
    /\ UNCHANGED findVars
    /\ UNCHANGED confVars
    /\ UNCHANGED pageVars
    /\ UNCHANGED homeVars
    /\ UNCHANGED listVars
    /\ UNCHANGED goVars

NameNext == NResolve

InitName == LineIdle /\ ReadIdle /\ ParseIdle /\ NameInit /\ FindIdle /\ ConfIdle /\ PageIdle /\ HomeIdle /\ ListIdle /\ GoIdle

SpecName == InitName /\ [][NameNext]_vars

(***************************************************************************)
(* SpecFind: FindConfig(fname).                                            *)
(***************************************************************************)
RECURSIVE TrimLeftSlash(_)
\* strings.TrimLeft(file, "/")
TrimLeftSlash(file) ==
    IF file # <<>> /\ Head(file) = "/" THEN TrimLeftSlash(Tail(file)) ELSE file

\* filepath.Clean, for paths without ".." elements: empty and "." elements
\* are dropped, and so are repeated and trailing separators
Clean(path) ==
    LET elems == SelectSeq(Split(path, "/"),
                           LAMBDA e : e # <<>> /\ e # <<".">>)
        rooted == path # <<>> /\ Head(path) = "/"
    IN  IF rooted THEN <<"/">> \o Join(elems, <<"/">>)
        ELSE IF elems = <<>> THEN <<".">>
        ELSE Join(elems, <<"/">>)

\* filepath.Join: the non-empty elements joined with "/" and cleaned
filepathJoin(elems) ==
    LET ne == SelectSeq(elems, LAMBDA e : e # <<>>)
    IN  IF ne = <<>> THEN <<>> ELSE Clean(Join(ne, <<"/">>))

DirConfig   == <<"/",".","c","o","n","f","i","g","/">>
DirEtc      == <<"/","e","t","c","/">>
DirLocalEtc == <<"/","u","s","r","/","l","o","c","a","l","/","e","t","c","/">>
DirPkgEtc   == <<"/","u","s","r","/","p","k","g","/","e","t","c","/">>
DirHere     == <<".","/">>

\* locations with /etc before the user's directories
locationsEtcFirst(file) ==
    << DirEtc \o file >>
    \o (IF xdg # <<>> THEN << filepathJoin(<<xdg, file>>) >> ELSE <<>>)
    \o (IF home # <<>>
            THEN (IF xdg = <<>>
                      THEN << filepathJoin(<<home, DirConfig, file>>) >>
                      ELSE <<>>)
                 \o << home \o <<"/", ".">> \o file >>
            ELSE <<>>)
    \o << DirLocalEtc \o file, DirPkgEtc \o file, DirHere \o file >>

\* lines 618-636: the locations, file being the trimmed name
locations(file) ==
    (IF xdg # <<>> THEN << filepathJoin(<<xdg, file>>) >> ELSE <<>>)
    \o (IF home # <<>>
            THEN (IF xdg = <<>>
                      THEN << filepathJoin(<<home, DirConfig, file>>) >>
                      ELSE <<>>)
                 \o << home \o <<"/", ".">> \o file >>
            ELSE <<>>)
    \o << DirEtc \o file, DirLocalEtc \o file, DirPkgEtc \o file,
          DirHere \o file >>

\* os.Stat(l) returns no error: the file system has the path l names
Stat(l) == Clean(l) \in exists

RECURSIVE firstExisting(_, _)
\* lines 638-644, from the k-th location on
firstExisting(ls, k) ==
    IF k > Len(ls) THEN <<>>
    ELSE IF Stat(ls[k]) THEN ls[k]
    ELSE firstExisting(ls, k + 1)

\* FindConfig(file)
FindConfig(file) == firstExisting(locations(TrimLeftSlash(file)), 1)

\* the environments, the file names and the paths of the model
XdgPool   == {<<>>, <<"/","x">>, <<"/","x","/">>}
HomePool  == {<<>>, <<"/","h">>, <<"/","h","/">>}
FilePool  == {<<"f">>, <<"/","f">>}
PathPool  == {<<"/","x","/","f">>,
              <<"/","h","/",".","c","o","n","f","i","g","/","f">>,
              <<"/","h","/",".","f">>, <<"/",".","f">>, <<"/","e","t","c","/","f">>,
              <<"/","u","s","r","/","l","o","c","a","l","/","e","t","c","/","f">>,
              <<"/","u","s","r","/","p","k","g","/","e","t","c","/","f">>,
              <<"f">>}

FindInit ==
    /\ xdg \in XdgPool
    /\ home \in HomePool
    /\ fname \in FilePool
    /\ exists \in SUBSET PathPool
    /\ fpc = "call"
    /\ found = <<>>

\* lines 615-645
FFind ==
    /\ fpc = "call"
    /\ found' = FindConfig(fname)
    /\ fpc' = "done"
    /\ UNCHANGED <<xdg, home, fname, exists>>
    /\ UNCHANGED lineVars
    /\ UNCHANGED readVars
    /\ UNCHANGED parseVars
    /\ UNCHANGED nameVars
    /\ UNCHANGED confVars
    /\ UNCHANGED pageVars
    /\ UNCHANGED homeVars
    /\ UNCHANGED listVars
    /\ UNCHANGED goVars

FindNext == FFind

InitFind == LineIdle /\ ReadIdle /\ ParseIdle /\ NameIdle /\ FindInit /\ ConfIdle /\ PageIdle /\ HomeIdle /\ ListIdle /\ GoIdle

SpecFind == InitFind /\ [][FindNext]_vars

(***************************************************************************)
(* SpecConfig: parseConfig(opts) (src/unnamed/part_007).                   *)
(***************************************************************************)
errNoUser == <<"no github user set">>
errNoPass == <<"no github password set">>
ErrParseConfig == <<"sconfig.Parse failed">>

\* sconfig.Parse(&c, opts.config, nil), line 182: the error for a file that
\* cannot be parsed, else c with the values the lines `user`, `pass` and
\* `skip-clone` of the file give ("" and FALSE where the file has no such
\* line)
parseInto(c, file) ==
    IF ~file.valid THEN [c |-> c, err |-> ErrParseConfig]
    ELSE [c |-> [c EXCEPT !.User = file.user, !.Pass = file.pass,
                          !.SkipClone = file.skip],
          err |-> Nil]

\* lines 188-205 with the value of the file kept when it has one
overrideFileWins(c) ==
    LET u == IF c.User = "" THEN envUser ELSE c.User
        p == IF c.Pass = "" THEN envPass ELSE c.Pass
    IN  IF c.SkipClone THEN [c |-> c, isnil |-> FALSE, err |-> Nil]
        ELSE IF u = "" THEN [c |-> c, isnil |-> TRUE, err |-> errNoUser]
        ELSE IF p = "" THEN [c |-> c, isnil |-> TRUE, err |-> errNoPass]
        ELSE [c |-> [c EXCEPT !.User = u, !.Pass = p], isnil |-> FALSE,
              err |-> Nil]

\* lines 188-205 with the password checked before the user
overridePassFirst(c) ==
    LET u == IF envUser # "" THEN envUser ELSE c.User
        p == IF envPass # "" THEN envPass ELSE c.Pass
    IN  IF c.SkipClone THEN [c |-> c, isnil |-> FALSE, err |-> Nil]
        ELSE IF p = "" THEN [c |-> c, isnil |-> TRUE, err |-> errNoPass]
        ELSE IF u = "" THEN [c |-> c, isnil |-> TRUE, err |-> errNoUser]
        ELSE [c |-> [c EXCEPT !.User = u, !.Pass = p], isnil |-> FALSE,
              err |-> Nil]

\* lines 188-207: the env vars override the values of the config, then the
\* user and the password are checked
override(c) ==
    IF ~c.SkipClone
        THEN LET c1 == IF envUser # "" THEN [c EXCEPT !.User = envUser] ELSE c
                 c2 == IF envPass # "" THEN [c1 EXCEPT !.Pass = envPass]
                                       ELSE c1
             IN  IF c1.User = ""
                     THEN [c |-> c1, isnil |-> TRUE, err |-> errNoUser]
                 ELSE IF c2.Pass = ""
                     THEN [c |-> c2, isnil |-> TRUE, err |-> errNoPass]
                 ELSE [c |-> c2, isnil |-> FALSE, err |-> Nil]
        ELSE [c |-> c, isnil |-> FALSE, err |-> Nil]

\* the config files of the model
ConfFiles ==
    {[valid |-> FALSE]} \cup
    [valid : {TRUE}, user : {"", "u"}, pass : {"", "p"}, skip : BOOLEAN]

ConfInit ==
    /\ cfile \in ConfFiles
    /\ optSkip \in BOOLEAN
    /\ envUser \in {"", "U"}
    /\ envPass \in {"", "P"}
    /\ cpc = "parse"
    /\ cres = [c |-> ConfigZero, isnil |-> TRUE, err |-> Nil]

\* lines 181-186
CParse ==
    /\ cpc = "parse"
    /\ LET r == parseInto(ConfigZero, cfile)
       IN  IF r.err # Nil
               THEN /\ cres' = [c |-> r.c, isnil |-> TRUE, err |-> r.err]
                    /\ cpc' = "done"
               ELSE /\ cres' = [c |-> [r.c EXCEPT !.SkipClone = @ \/ optSkip],
                                isnil |-> TRUE, err |-> Nil]
                    /\ cpc' = "env"
    /\ UNCHANGED <<cfile, optSkip, envUser, envPass>>
    /\ UNCHANGED lineVars
    /\ UNCHANGED readVars
    /\ UNCHANGED parseVars
    /\ UNCHANGED nameVars
    /\ UNCHANGED findVars
    /\ UNCHANGED pageVars
    /\ UNCHANGED homeVars
    /\ UNCHANGED listVars
    /\ UNCHANGED goVars

\* lines 188-207
CEnv ==
    /\ cpc = "env"
    /\ cres' = override(cres.c)
    /\ cpc' = "done"
    /\ UNCHANGED <<cfile, optSkip, envUser, envPass>>
    /\ UNCHANGED lineVars
    /\ UNCHANGED readVars
    /\ UNCHANGED parseVars
    /\ UNCHANGED nameVars
    /\ UNCHANGED findVars
    /\ UNCHANGED pageVars
    /\ UNCHANGED homeVars
    /\ UNCHANGED listVars
    /\ UNCHANGED goVars

ConfNext == CParse \/ CEnv

InitConfig ==
    LineIdle /\ ReadIdle /\ ParseIdle /\ NameIdle /\ FindIdle /\ ConfInit
        /\ PageIdle /\ HomeIdle /\ ListIdle
        /\ GoIdle

SpecConfig == InitConfig /\ [][ConfNext]_vars

(***************************************************************************)
(* SpecPage: hubhub.Paginate(&scan, uri, 0) (src/unnamed/part_003), the    *)
(* call of listRepos (src/github.go).                                      *)
(***************************************************************************)
\* l = 999
PageCap == 999

ErrRequest == <<"request failed">>

\* u.Query(): the parameters of the URL, parsed into a map of its own
Query(u) == [page |-> u.page]

\* Values.Set("page", i), on the map it is called on
ValuesSet(q, i) == [q EXCEPT !.page = i]

\* u.String(): the URL with the parameters u holds
String(u) == [page |-> u.page]

\* lines 175-176: the URL of the request for the page i.  The map that
\* u.Query() returns is set and dropped; u is as url.Parse left it
requestURL(u, i) ==
    LET q == ValuesSet(Query(u), i)
    IN  String(u)

\* the page the server sends for a URL: the page the parameter names, the
\* first one when the URL has none, no item past the last page
ServerPage(url) ==
    LET n == IF url.page = 0 THEN 1 ELSE url.page
    IN  IF n <= Len(srv) THEN srv[n] ELSE <<>>

\* getPage(i) with nPages = 0, lines 168-197; fails: Request returns an error
getPage(i, fails) ==
    LET url == requestURL([page |-> upage], i)
        v == ServerPage(url)
    IN  IF fails
            THEN [url |-> url, errs |-> Append(errs, ErrRequest),
                  scan |-> scan, lastPage |-> TRUE]
        ELSE IF Len(v) = 0
            THEN [url |-> url, errs |-> errs, scan |-> scan,
                  lastPage |-> TRUE]
        ELSE [url |-> url, errs |-> errs, scan |-> scan \o v,
              lastPage |-> FALSE]

\* the items of page k of the server
PageItems(k) == <<[page |-> k, item |-> 1], [page |-> k, item |-> 2]>>

PageInit ==
    /\ \E n \in 0..MaxPages : srv = [k \in 1..n |-> PageItems(k)]
    /\ upage \in {0, 2}
    /\ pi = 1
    /\ scan = <<>>
    /\ errs = <<>>
    /\ reqs = <<>>
    /\ ppc = "loop"
    /\ pret = Nil

\* one iteration of the loop, lines 207-216, with nPages = 0
GGetPage ==
    /\ ppc = "loop"
    /\ pi <= PageCap
    /\ \E fails \in BOOLEAN :
           LET r == getPage(pi, fails)
           IN  /\ reqs' = Append(reqs, r.url.page)
               /\ errs' = r.errs
               /\ scan' = r.scan
               /\ IF r.lastPage THEN ppc' = "ret" /\ pi' = pi
                                 ELSE ppc' = "loop" /\ pi' = pi + 1
    /\ UNCHANGED <<srv, upage, pret>>
    /\ UNCHANGED lineVars
    /\ UNCHANGED readVars
    /\ UNCHANGED parseVars
    /\ UNCHANGED nameVars
    /\ UNCHANGED findVars
    /\ UNCHANGED confVars
    /\ UNCHANGED homeVars
    /\ UNCHANGED listVars
    /\ UNCHANGED goVars

\* the loop ends at i > l
GLoopEnd ==
    /\ ppc = "loop"
    /\ pi > PageCap
    /\ ppc' = "ret"
    /\ UNCHANGED <<srv, upage, pi, scan, errs, reqs, pret>>
    /\ UNCHANGED lineVars
    /\ UNCHANGED readVars
    /\ UNCHANGED parseVars
    /\ UNCHANGED nameVars
    /\ UNCHANGED findVars
    /\ UNCHANGED confVars
    /\ UNCHANGED homeVars
    /\ UNCHANGED listVars
    /\ UNCHANGED goVars

\* lines 221-224
GReturn ==
    /\ ppc = "ret"
    /\ pret' = IF Len(errs) > 0
                   THEN <<"[">> \o Join(errs, <<" ">>) \o <<"]">>
                   ELSE Nil
    /\ ppc' = "done"
    /\ UNCHANGED <<srv, upage, pi, scan, errs, reqs>>
    /\ UNCHANGED lineVars
    /\ UNCHANGED readVars
    /\ UNCHANGED parseVars
    /\ UNCHANGED nameVars
    /\ UNCHANGED findVars
    /\ UNCHANGED confVars
    /\ UNCHANGED homeVars
    /\ UNCHANGED listVars
    /\ UNCHANGED goVars

PageNext == GGetPage \/ GLoopEnd \/ GReturn

InitPage ==
    LineIdle /\ ReadIdle /\ ParseIdle /\ NameIdle /\ FindIdle /\ ConfIdle
        /\ PageInit /\ HomeIdle /\ ListIdle
        /\ GoIdle

SpecPage == InitPage /\ [][PageNext]_vars

(***************************************************************************)
(* SpecHome: makeHome(c, packages) of godocgen (src/unnamed/part_007).     *)
(***************************************************************************)
\* strings.EqualFold, on ASCII
EqualFold(a, b) == ToLower(a) = ToLower(b)

ErrNonGrouped(name) ==
    <<"non-grouped ">> \o name \o <<" not found in list of groups">>

\* lines 503-517: other, an index of c.Groups from 0; -1 with a name no
\* group has, and with no name and no group
otherGroup(groups, name) ==
    IF name # <<>>
        THEN IF \E i \in 1..Len(groups) : EqualFold(groups[i].Name, name)
                 THEN (CHOOSE i \in 1..Len(groups) :
                          /\ EqualFold(groups[i].Name, name)
                          /\ \A j \in 1..(i - 1) :
                                 ~EqualFold(groups[j].Name, name)) - 1
                 ELSE -1
        ELSE Len(groups) - 1

\* whether a project of the group is a prefix of the path, lines 524-525
hasProject(g, path) ==
    \E k \in 1..Len(g.Projects) : HasPrefix(path, g.Projects[k])

\* lines 521-531: the index from 0 of the group the loop labelled groups
\* stops at, -1 when it runs to its end (found is false)
foundGroup(groups, path) ==
    IF \E i \in 1..Len(groups) : hasProject(groups[i], path)
        THEN (CHOOSE i \in 1..Len(groups) :
                 /\ hasProject(groups[i], path)
                 /\ \A j \in 1..(i - 1) : ~hasProject(groups[j], path)) - 1
        ELSE -1

\* c.Groups[i].Packages = append(c.Groups[i].Packages, pkg), i from 0
appendPackage(groups, i, pkg) ==
    [groups EXCEPT ![i + 1].Packages = Append(@, pkg)]

\* the body of the loop over packages, lines 520-536; indexing c.Groups
\* out of its range panics
addPackage(groups, oth, pkg) ==
    IF foundGroup(groups, pkg) >= 0
        THEN [panic |-> FALSE,
              groups |-> appendPackage(groups, foundGroup(groups, pkg), pkg)]
    ELSE IF oth >= 0 /\ oth < Len(groups)
        THEN [panic |-> FALSE, groups |-> appendPackage(groups, oth, pkg)]
    ELSE [panic |-> TRUE, groups |-> groups]

ErrCreate == <<"cannot create index.html">>

NameLib   == <<"l","i","b">>
NameApi   == <<"a","p","i">>
NameOther == <<"O","t","h","e","r">>
NameLower == <<"o","t","h","e","r">>
NameUpper == <<"O","T","H","E","R">>
NameNone  == <<"n","o","n","e">>

\* the groups a configuration may list
GroupPool ==
    {[Name |-> NameLib, Projects |-> << <<"x">> >>, Packages |-> <<>>],
     [Name |-> NameApi, Projects |-> << <<"x","y">>, <<"y">> >>,
      Packages |-> <<>>],
     [Name |-> NameOther, Projects |-> <<>>, Packages |-> <<>>],
     [Name |-> NameLower, Projects |-> << <<"x">> >>, Packages |-> <<>>]}

NonGroupedPool == {<<>>, NameLower, NameUpper, NameNone}

\* the RelImportPath of the packages there may be
PackagePool == {<<"x">>, <<"x","y">>, <<"y","/","z">>, <<"z">>}

HomeInit ==
    /\ hgroups \in FilesOver(GroupPool, MaxGroups)
    /\ nonGrouped \in NonGroupedPool
    /\ hpkgs \in FilesOver(PackagePool, MaxPackages)
    /\ hother = -1
    /\ hi = 1
    /\ hpc = "other"
    /\ hret = Nil
    /\ hwrote = FALSE

\* lines 503-517
HOther ==
    /\ hpc = "other"
    /\ hother' = otherGroup(hgroups, nonGrouped)
    /\ IF nonGrouped # <<>> /\ otherGroup(hgroups, nonGrouped) = -1
           THEN hpc' = "done" /\ hret' = ErrNonGrouped(nonGrouped)
           ELSE hpc' = "add" /\ hret' = hret
    /\ UNCHANGED <<hgroups, nonGrouped, hpkgs, hi, hwrote>>
    /\ UNCHANGED lineVars
    /\ UNCHANGED readVars
    /\ UNCHANGED parseVars
    /\ UNCHANGED nameVars
    /\ UNCHANGED findVars
    /\ UNCHANGED confVars
    /\ UNCHANGED pageVars
    /\ UNCHANGED listVars
    /\ UNCHANGED goVars

\* one iteration of the loop over packages, lines 520-536
HAdd ==
    /\ hpc = "add"
    /\ hi <= Len(hpkgs)
    /\ LET r == addPackage(hgroups, hother, hpkgs[hi])
       IN  IF r.panic
               THEN hpc' = "panic" /\ hgroups' = hgroups /\ hi' = hi
               ELSE hpc' = "add" /\ hgroups' = r.groups /\ hi' = hi + 1
    /\ UNCHANGED <<nonGrouped, hpkgs, hother, hret, hwrote>>
    /\ UNCHANGED lineVars
    /\ UNCHANGED readVars
    /\ UNCHANGED parseVars
    /\ UNCHANGED nameVars
    /\ UNCHANGED findVars
    /\ UNCHANGED confVars
    /\ UNCHANGED pageVars
    /\ UNCHANGED listVars
    /\ UNCHANGED goVars

\* lines 538-559: the page is created and the template written to it, or
\* os.Create fails
HWrite ==
    /\ hpc = "add"
    /\ hi > Len(hpkgs)
    /\ \E fails \in BOOLEAN :
           IF fails THEN hret' = ErrCreate /\ hwrote' = FALSE
                    ELSE hret' = Nil /\ hwrote' = TRUE
    /\ hpc' = "done"
    /\ UNCHANGED <<hgroups, nonGrouped, hpkgs, hother, hi>>
    /\ UNCHANGED lineVars
    /\ UNCHANGED readVars
    /\ UNCHANGED parseVars
    /\ UNCHANGED nameVars
    /\ UNCHANGED findVars
    /\ UNCHANGED confVars
    /\ UNCHANGED pageVars
    /\ UNCHANGED listVars
    /\ UNCHANGED goVars

HomeNext == HOther \/ HAdd \/ HWrite

InitHome ==
    LineIdle /\ ReadIdle /\ ParseIdle /\ NameIdle /\ FindIdle /\ ConfIdle
        /\ PageIdle /\ HomeInit /\ ListIdle
        /\ GoIdle

SpecHome == InitHome /\ [][HomeNext]_vars

(***************************************************************************)
(* SpecList: list(c) of godocgen (src/unnamed/part_007) from the sort of   *)
(* the packages on, with c.RelativeTo empty.                               *)
(***************************************************************************)
\* the characters of the import paths, in the order of their bytes
PathChars == <<"-", "/", "a", "b", "c", "d">>

Ord(c) == CHOOSE k \in 1..Len(PathChars) : PathChars[k] = c

RECURSIVE StringLess(_, _)
\* s < t for two strings
StringLess(s, t) ==
    IF t = <<>> THEN FALSE
    ELSE IF s = <<>> THEN TRUE
    ELSE IF Head(s) # Head(t) THEN Ord(Head(s)) < Ord(Head(t))
    ELSE StringLess(Tail(s), Tail(t))

\* pkg.Depth = len(strings.Split(pkg.RelImportPath, "/")), line 636
depthOf(path) == Len(Split(path, "/"))

\* the packageT of a path, of which the model keeps two fields
packageOf(path) == [FullImportPath |-> path, Depth |-> depthOf(path)]

RECURSIVE insertSorted(_, _)
insertSorted(sorted, pkg) ==
    IF sorted = <<>> THEN <<pkg>>
    ELSE IF StringLess(pkg.FullImportPath, Head(sorted).FullImportPath)
        THEN <<pkg>> \o sorted
    ELSE <<Head(sorted)>> \o insertSorted(Tail(sorted), pkg)

RECURSIVE sortSlice(_)
\* sort.Slice(packages, less) with less on FullImportPath, lines 683-685
sortSlice(pkgs) ==
    IF pkgs = <<>> THEN <<>>
    ELSE insertSorted(sortSlice(Tail(pkgs)), Head(pkgs))

\* the body of the loop at i, lines 693-698, i + 1 < len(packages)
depthStep(pkgs, i) ==
    IF pkgs[i + 1].Depth # 1 THEN pkgs
    ELSE IF pkgs[i + 2].Depth = 1 THEN [pkgs EXCEPT ![i + 1].Depth = 0]
    ELSE pkgs

\* the import paths there may be
ImportPathPool ==
    {<<"a">>, <<"a","/","b">>, <<"a","-","b">>, <<"c">>, <<"c","/","d">>}

\* filepath.Dir of a path of the pool: <<>> for a path of one element
dirOf(path) ==
    IF Index(path, "/") = -1 THEN <<>> ELSE Slice(path, 0, Index(path, "/"))

\* what lines 613-681 leave in packages: every package once, in any order,
\* and with every package of two elements the directory it is in
ListInit ==
    /\ packages \in
           {[k \in DOMAIN f |-> packageOf(f[k])] :
               f \in {g \in FilesOver(ImportPathPool, MaxListed) :
                        /\ \A j, k \in DOMAIN g : j # k => g[j] # g[k]
                        /\ \A j \in DOMAIN g :
                               dirOf(g[j]) # <<>> =>
                                   \E k \in DOMAIN g : g[k] = dirOf(g[j])}}
    /\ listI = 0
    /\ listpc = "sort"

\* lines 683-685
LSort ==
    /\ listpc = "sort"
    /\ packages' = sortSlice(packages)
    /\ listI' = 0
    /\ listpc' = "depth"
    /\ UNCHANGED lineVars
    /\ UNCHANGED readVars
    /\ UNCHANGED parseVars
    /\ UNCHANGED nameVars
    /\ UNCHANGED findVars
    /\ UNCHANGED confVars
    /\ UNCHANGED pageVars
    /\ UNCHANGED homeVars
    /\ UNCHANGED goVars

\* one iteration of the loop, lines 688-699, that does not break
LDepth ==
    /\ listpc = "depth"
    /\ listI < Len(packages)
    /\ listI + 1 # Len(packages)
    /\ packages' = depthStep(packages, listI)
    /\ listI' = listI + 1
    /\ UNCHANGED listpc
    /\ UNCHANGED lineVars
    /\ UNCHANGED readVars
    /\ UNCHANGED parseVars
    /\ UNCHANGED nameVars
    /\ UNCHANGED findVars
    /\ UNCHANGED confVars
    /\ UNCHANGED pageVars
    /\ UNCHANGED homeVars
    /\ UNCHANGED goVars

\* the loop ends, by the break of lines 689-691 or with no package, and
\* list returns, line 701
LReturn ==
    /\ listpc = "depth"
    /\ listI >= Len(packages) \/ listI + 1 = Len(packages)
    /\ listpc' = "done"
    /\ UNCHANGED <<packages, listI>>
    /\ UNCHANGED lineVars
    /\ UNCHANGED readVars
    /\ UNCHANGED parseVars
    /\ UNCHANGED nameVars
    /\ UNCHANGED findVars
    /\ UNCHANGED confVars
    /\ UNCHANGED pageVars
    /\ UNCHANGED homeVars
    /\ UNCHANGED goVars

ListNext == LSort \/ LDepth \/ LReturn

InitList ==
    LineIdle /\ ReadIdle /\ ParseIdle /\ NameIdle /\ FindIdle /\ ConfIdle
        /\ PageIdle /\ HomeIdle /\ ListInit
        /\ GoIdle

SpecList == InitList /\ [][ListNext]_vars

(***************************************************************************)
(* SpecGo: hubhub.Paginate(&scan, uri, nPages) with nPages > 0             *)
(* (src/unnamed/part_003): one goroutine of getPage for every page.  The   *)
(* goroutines share slice, errs and err; a step is what a goroutine does   *)
(* between two points where another may run.                               *)
(***************************************************************************)
\* the goroutines
Goroutines == 1..nPages

\* lines 156-166 and 199-206 have run: wg.Add(nPages), and the loop is at
\* i = 1
GoInit ==
    /\ \E n \in 0..1 : srv = [k \in 1..n |-> PageItems(k)]
    /\ upage = 0
    /\ pi = 1
    /\ scan = <<>>
    /\ errs = <<>>
    /\ reqs = <<>>
    /\ ppc = "spawn"
    /\ pret = Nil
    /\ nPages \in 1..MaxPages
    /\ gpc = [g \in 1..nPages |-> "none"]
    /\ own = [g \in 1..nPages |-> "none"]
    /\ lock = 0
    /\ wg = nPages
    /\ perr = Nil

\* line 214 in the loop of lines 207-216: go getPage(i)
MGo ==
    /\ ppc = "spawn"
    /\ pi <= nPages
    /\ gpc' = [gpc EXCEPT ![pi] = "request"]
    /\ pi' = pi + 1
    /\ UNCHANGED <<srv, upage, scan, errs, reqs, ppc, pret>>
    /\ UNCHANGED <<nPages, own, lock, wg, perr>>
    /\ UNCHANGED lineVars
    /\ UNCHANGED readVars
    /\ UNCHANGED parseVars
    /\ UNCHANGED nameVars
    /\ UNCHANGED findVars
    /\ UNCHANGED confVars
    /\ UNCHANGED homeVars
    /\ UNCHANGED listVars

\* lines 173-176, up to the return of Request: the request is sent and
\* answered
GRequest ==
    /\ \E g \in Goroutines :
           /\ gpc[g] = "request"
           /\ reqs' = Append(reqs, requestURL([page |-> upage], g).page)
           /\ \E fails \in BOOLEAN :
                  own' = [own EXCEPT ![g] = IF fails THEN "fail" ELSE "ok"]
           /\ gpc' = [gpc EXCEPT ![g] = "assign"]
    /\ UNCHANGED <<srv, upage, pi, scan, errs, ppc, pret>>
    /\ UNCHANGED <<nPages, lock, wg, perr>>
    /\ UNCHANGED lineVars
    /\ UNCHANGED readVars
    /\ UNCHANGED parseVars
    /\ UNCHANGED nameVars
    /\ UNCHANGED findVars
    /\ UNCHANGED confVars
    /\ UNCHANGED homeVars
    /\ UNCHANGED listVars

\* line 176: _, err = ..., the assignment of the err of Paginate
GAssign ==
    /\ \E g \in Goroutines :
           /\ gpc[g] = "assign"
           /\ perr' = IF own[g] = "fail" THEN ErrRequest ELSE Nil
           /\ gpc' = [gpc EXCEPT ![g] = "test"]
    /\ UNCHANGED pageVars
    /\ UNCHANGED <<nPages, own, lock, wg>>
    /\ UNCHANGED lineVars
    /\ UNCHANGED readVars
    /\ UNCHANGED parseVars
    /\ UNCHANGED nameVars
    /\ UNCHANGED findVars
    /\ UNCHANGED confVars
    /\ UNCHANGED homeVars
    /\ UNCHANGED listVars

\* the value of s after Request: the page, or nothing when the request
\* failed
valueOf(g) ==
    IF own[g] = "ok" THEN ServerPage(requestURL([page |-> upage], g))
    ELSE <<>>

\* lines 177 and 188-191: err is read; with no error and an empty page the
\* goroutine returns
GTest ==
    /\ \E g \in Goroutines :
           /\ gpc[g] = "test"
           /\ gpc' = [gpc EXCEPT ![g] =
                         IF perr # Nil THEN "lockErrs"
                         ELSE IF Len(valueOf(g)) = 0 THEN "return"
                         ELSE "lockSlice"]
    /\ UNCHANGED pageVars
    /\ UNCHANGED <<nPages, own, lock, wg, perr>>
    /\ UNCHANGED lineVars
    /\ UNCHANGED readVars
    /\ UNCHANGED parseVars
    /\ UNCHANGED nameVars
    /\ UNCHANGED findVars
    /\ UNCHANGED confVars
    /\ UNCHANGED homeVars
    /\ UNCHANGED listVars

\* lines 178 and 193: lock.Lock()
GLock ==
    /\ lock = 0
    /\ \E g \in Goroutines :
           /\ gpc[g] \in {"lockErrs", "lockSlice"}
           /\ lock' = g
           /\ gpc' = [gpc EXCEPT ![g] =
                         IF gpc[g] = "lockErrs" THEN "errs" ELSE "slice"]
    /\ UNCHANGED pageVars
    /\ UNCHANGED <<nPages, own, wg, perr>>
    /\ UNCHANGED lineVars
    /\ UNCHANGED readVars
    /\ UNCHANGED parseVars
    /\ UNCHANGED nameVars
    /\ UNCHANGED findVars
    /\ UNCHANGED confVars
    /\ UNCHANGED homeVars
    /\ UNCHANGED listVars

\* lines 179-180: errs = append(errs, err), with the err of this moment, and
\* lock.Unlock()
GErrs ==
    /\ \E g \in Goroutines :
           /\ gpc[g] = "errs"
           /\ errs' = Append(errs, perr)
           /\ lock' = 0
           /\ gpc' = [gpc EXCEPT ![g] = "return"]
    /\ UNCHANGED <<srv, upage, pi, scan, reqs, ppc, pret>>
    /\ UNCHANGED <<nPages, own, wg, perr>>
    /\ UNCHANGED lineVars
    /\ UNCHANGED readVars
    /\ UNCHANGED parseVars
    /\ UNCHANGED nameVars
    /\ UNCHANGED findVars
    /\ UNCHANGED confVars
    /\ UNCHANGED homeVars
    /\ UNCHANGED listVars

\* lines 194-195: slice.Set(reflect.AppendSlice(slice, v)) and lock.Unlock()
GSlice ==
    /\ \E g \in Goroutines :
           /\ gpc[g] = "slice"
           /\ scan' = scan \o valueOf(g)
           /\ lock' = 0
           /\ gpc' = [gpc EXCEPT ![g] = "return"]
    /\ UNCHANGED <<srv, upage, pi, errs, reqs, ppc, pret>>
    /\ UNCHANGED <<nPages, own, wg, perr>>
    /\ UNCHANGED lineVars
    /\ UNCHANGED readVars
    /\ UNCHANGED parseVars
    /\ UNCHANGED nameVars
    /\ UNCHANGED findVars
    /\ UNCHANGED confVars
    /\ UNCHANGED homeVars
    /\ UNCHANGED listVars

\* getPage returns and the deferred wg.Done() of line 170 runs
GDone ==
    /\ \E g \in Goroutines :
           /\ gpc[g] = "return"
           /\ wg' = wg - 1
           /\ gpc' = [gpc EXCEPT ![g] = "end"]
    /\ UNCHANGED pageVars
    /\ UNCHANGED <<nPages, own, lock, perr>>
    /\ UNCHANGED lineVars
    /\ UNCHANGED readVars
    /\ UNCHANGED parseVars
    /\ UNCHANGED nameVars
    /\ UNCHANGED findVars
    /\ UNCHANGED confVars
    /\ UNCHANGED homeVars
    /\ UNCHANGED listVars

\* lines 217-219: the loop has ended and wg.Wait() returns, the counter
\* being zero
MWait ==
    /\ ppc = "spawn"
    /\ pi > nPages
    /\ wg = 0
    /\ ppc' = "ret"
    /\ UNCHANGED <<srv, upage, pi, scan, errs, reqs, pret>>
    /\ UNCHANGED goVars
    /\ UNCHANGED lineVars
    /\ UNCHANGED readVars
    /\ UNCHANGED parseVars
    /\ UNCHANGED nameVars
    /\ UNCHANGED findVars
    /\ UNCHANGED confVars
    /\ UNCHANGED homeVars
    /\ UNCHANGED listVars

\* Paginate with nPages > 0; GReturn is lines 221-224
GoNext ==
    MGo \/ GRequest \/ GAssign \/ GTest \/ GLock \/ GErrs \/ GSlice \/ GDone
        \/ MWait \/ GReturn

InitGo ==
    LineIdle /\ ReadIdle /\ ParseIdle /\ NameIdle /\ FindIdle /\ ConfIdle
        /\ HomeIdle /\ ListIdle /\ GoInit

SpecGo == InitGo /\ [][GoNext]_vars

(***************************************************************************)
(* What the claims about one line are measured against.                    *)
(***************************************************************************)
Has(s, c) == \E k \in 1..Len(s) : s[k] = c

\* the characters of s before its first # that no backslash precedes
BeforeComment(s) ==
    LET cut == {k \in 1..Len(s) : s[k] = "#" /\ (k = 1 \/ s[k - 1] # "\\")}
    IN  IF cut = {} THEN s
        ELSE SubSeq(s, 1, (CHOOSE k \in cut : \A j \in cut : k <= j) - 1)

RECURSIVE DropEscapes(_)
\* s without the backslashes that stand right before a #
DropEscapes(s) ==
    IF s = <<>> THEN <<>>
    ELSE IF Len(s) >= 2 /\ s[1] = "\\" /\ s[2] = "#" THEN DropEscapes(Tail(s))
    ELSE <<Head(s)>> \o DropEscapes(Tail(s))

RECURSIVE Words(_)
\* the maximal runs of non-whitespace characters of s, in order
Words(s) ==
    LET t == TrimLeft(s)
        stop == {k \in 1..Len(t) : IsSpace(t[k])}
        n == IF stop = {} THEN Len(t)
             ELSE (CHOOSE k \in stop : \A j \in stop : k <= j) - 1
    IN  IF t = <<>> THEN <<>>
        ELSE <<SubSeq(t, 1, n)>> \o Words(SubSeq(t, n + 1, Len(t)))

RECURSIVE JoinWords(_)
\* the words, one space between two of them
JoinWords(ws) ==
    IF ws = <<>> THEN <<>>
    ELSE IF Len(ws) = 1 THEN ws[1]
    ELSE ws[1] \o <<" ">> \o JoinWords(Tail(ws))

TokKey    == <<"k","e","y">>
TokValue1 == <<"v","a","l","u","e","1">>
TokValue2 == <<"v","a","l","u","e","2">>

\* C3: removeComments cuts the line at its first # that no backslash
\* precedes, and turns every \# before it into a literal # (the backslash is
\* dropped); `key a \# b` gives the tokens [key, a, #, b], `key a # b` gives
\* [key, a].
C3_RemoveComments ==
    /\ lpc \in {"ws", "done", "panic"} =>
           nocmt = DropEscapes(BeforeComment(trimmed))
    /\ (lpc = "done" /\ raw = LnEscapedHash) =>
           Split(norm, " ") = <<TokKey, <<"a">>, <<"#">>, <<"b">>>>
    /\ (lpc = "done" /\ raw = LnPlainHash) =>
           Split(norm, " ") = <<TokKey, <<"a">>>>

\* a line with an escaped # and one with a comment have been normalised
C3_Witness ==
    /\ lpc = "done"
    /\ raw \in {LnEscapedHash, LnPlainHash}
    /\ nocmt # trimmed

\* C5: a run of whitespace between two words collapses to one space, so lines
\* that differ only in the whitespace between their words normalise to the
\* same content: the words joined by single spaces.
C5_CollapseRuns ==
    /\ (lpc = "done" /\ ~Has(nocmt, "\\") /\ TrimSpace(nocmt) = nocmt) =>
           norm = JoinWords(Words(nocmt))
    /\ (lpc = "done" /\ raw \in {LnSpacesA, LnSpacesB}) =>
           Split(norm, " ") = <<TokKey, TokValue1, TokValue2>>

\* a line with a run of several whitespace characters has been collapsed
C5_Witness ==
    /\ lpc = "done"
    /\ raw \in {LnSpacesA, LnSpacesB, LnTabs}
    /\ Len(norm) < Len(nocmt)

\* C6 as stated: collapsing is idempotent on every line without a #.
C6_IdempotentNoHash ==
    (lpc = "done" /\ ~Has(trimmed, "#")) => collapseWhitespace(norm) = norm

\* C6, amended: collapsing is idempotent on every trimmed line that holds
\* neither a # nor a backslash.
C6_IdempotentNoEscape ==
    (lpc = "done" /\ ~Has(trimmed, "#") /\ ~Has(trimmed, "\\")) =>
        collapseWhitespace(norm) = norm

\* a line without # or backslash that collapsing has changed
C6_Witness ==
    /\ lpc = "done"
    /\ ~Has(trimmed, "#") /\ ~Has(trimmed, "\\")
    /\ norm # trimmed
    /\ collapseWhitespace(norm) = norm

\* the number of backslashes in s
RECURSIVE CountBackslashes(_)
CountBackslashes(s) ==
    IF s = <<>> THEN 0
    ELSE (IF Head(s) = "\\" THEN 1 ELSE 0) + CountBackslashes(Tail(s))

\* the backslashes of s stand in runs of even length only, k being where a
\* run starts
RECURSIVE EvenRunsFrom(_, _)
EvenRunsFrom(s, k) ==
    IF k > Len(s) THEN TRUE
    ELSE IF s[k] # "\\" THEN EvenRunsFrom(s, k + 1)
    ELSE /\ k + 1 <= Len(s)
         /\ s[k + 1] = "\\"
         /\ EvenRunsFrom(s, k + 2)

\* C23 as stated: in a line whose backslashes stand in runs of even length,
\* collapseWhitespace writes one backslash for each pair: a run of 2k
\* backslashes yields k backslashes.
C23_BackslashPairs ==
    (lpc = "done" /\ EvenRunsFrom(nocmt, 1)) =>
        2 * CountBackslashes(norm) = CountBackslashes(nocmt)

\* what is left of C23 for a line with one pair of backslashes
OnlyOnePairHalved ==
    (lpc = "done" /\ EvenRunsFrom(nocmt, 1) /\ CountBackslashes(nocmt) = 2) =>
        CountBackslashes(norm) = 1

\* C26: on every line readFile passes to removeComments, every # the scan
\* inspects stands at index 1 or later, so the character before it is a
\* character of the line: removeComments does not read index -1.
C26_CommentScanInRange ==
    /\ lpc \in {"ws", "done", "panic"} => nocmt # Panicked
    /\ lpc = "cmt" => removeComments(trimmed) # Panicked

\* a line with an escaped # directly followed by a comment has been scanned:
\* the # found after the rewrite is inspected too
C26_Witness ==
    /\ lpc = "done"
    /\ raw = <<"a", "\\", "#", "#", "a">>
    /\ nocmt = <<"a", "#">>

\* C28 as stated: collapseWhitespace never reads the position before the
\* start of the line, also on a line that begins with a backslash.
C28_CollapseInRange ==
    /\ lpc # "panic"
    /\ norm # Panicked

\* what is left of C28 for the lines that do not begin with a backslash
OnlyLeadingBackslashPanics ==
    lpc = "panic" => (trimmed # <<>> /\ trimmed[1] = "\\")

(***************************************************************************)
(* What the claims about readFile are measured against.                    *)
(***************************************************************************)
\* the physical line is blank or a comment
RefSkipped(l) == TrimSpace(l) = <<>> \/ TrimSpace(l)[1] = "#"

\* the physical line starts with whitespace
RefIndented(l) == l # <<>> /\ IsSpace(l[1])

\* the normalized content of the physical line
RefNorm(l) == collapseWhitespace(removeComments(TrimSpace(l)))

\* the physical line starts an entry or is a directive
RefStart(l) == ~RefSkipped(l) /\ ~RefIndented(l)

RefSource(l) == RefStart(l) /\ HasPrefix(RefNorm(l), SourcePrefix)

NoSource(file) == \A k \in 1..Len(file) : ~RefSource(file[k])

\* the second element of every entry
Contents(entries) == [k \in 1..Len(entries) |-> entries[k][2]]

\* the key of an entry's content: what stands before its first space
KeyOf(content) == Split(content, " ")[1]

\* line number and key of every entry
Origins(entries) ==
    [k \in 1..Len(entries) |-> <<entries[k][1], KeyOf(entries[k][2])>>]

RECURSIVE ContinuationFrom(_, _)
\* what the indented lines from line j up to the next start add to an entry
ContinuationFrom(file, j) ==
    IF j > Len(file) \/ RefStart(file[j]) THEN <<>>
    ELSE IF RefSkipped(file[j]) THEN ContinuationFrom(file, j + 1)
    ELSE <<" ">> \o RefNorm(file[j]) \o ContinuationFrom(file, j + 1)

RECURSIVE RefContentsFrom(_, _)
\* the contents of the entries of a file without source directives, from
\* line k on: one per start, followed by its indented lines
RefContentsFrom(file, k) ==
    IF k > Len(file) THEN <<>>
    ELSE IF RefStart(file[k])
        THEN <<RefNorm(file[k]) \o ContinuationFrom(file, k + 1)>>
                 \o RefContentsFrom(file, k + 1)
    ELSE RefContentsFrom(file, k + 1)

RECURSIVE RefOriginsFrom(_, _)
\* line number and key of the entries of a file, from line k on: those of
\* the named file, in its order, where a source directive stands
RefOriginsFrom(file, k) ==
    IF k > Len(file) THEN <<>>
    ELSE IF RefSource(file[k])
        THEN Origins(readFile(Slice(RefNorm(file[k]), 7, Len(RefNorm(file[k])))).lines)
                 \o RefOriginsFrom(file, k + 1)
    ELSE IF RefStart(file[k])
        THEN << <<Itoa(k), KeyOf(RefNorm(file[k]))>> >> \o RefOriginsFrom(file, k + 1)
    ELSE RefOriginsFrom(file, k + 1)

\* the file without its blank and comment lines
Strip(file) == SelectSeq(file, LAMBDA l : ~RefSkipped(l))

ContKeyValue12 == <<"k","e","y"," ","v","a","l","u","e","1"," ",
                    "v","a","l","u","e","2">>

\* C1: in a file without source directives an indented line is no entry of
\* its own: its normalized content is appended, after one space, to the last
\* entry emitted, and consecutive indented lines extend that entry in order;
\* `key value1` followed by an indented `value2` is the one entry
\* [key, value1, value2].
C1_Continuation ==
    /\ (rf.status = "ok" /\ NoSource(main)) =>
           Contents(rf.lines) = RefContentsFrom(main, 1)
    /\ (rf.status = "ok" /\ main = <<PKey, PCont>>) =>
           /\ Len(rf.lines) = 1
           /\ Split(rf.lines[1][2], " ") = <<TokKey, TokValue1, TokValue2>>

\* an entry followed by two indented lines has been read
C1_Witness ==
    /\ rf.status = "ok"
    /\ main = <<PKey, PCont, PCont>>
    /\ Contents(rf.lines) = <<ContKeyValue12 \o <<" ">> \o TokValue2>>

\* C4 as stated: no entry's content ends with a whitespace character.
C4_NoTrailingWhitespace ==
    \A k \in 1..Len(rf.lines) :
        rf.lines[k][2] = <<>> \/ ~IsSpace(rf.lines[k][2][Len(rf.lines[k][2])])

\* C7: a source directive emits no entry of its own; the entries of the named
\* file stand, in their order, where the directive stood: after the entries
\* emitted before it and before those emitted after it.
C7_SourceSplice ==
    (rf.status = "ok" /\ ~NoSource(main)) =>
        Origins(rf.lines) = RefOriginsFrom(main, 1)

\* a file with an entry, a directive naming a file of two entries, an entry
C7_Witness ==
    /\ rf.status = "ok"
    /\ main = <<PKey, PSource, PTag>>
    /\ other = <<POtherB, POtherC>>
    /\ Origins(rf.lines) =
           << <<Itoa(1), TokKey>>, <<Itoa(1), <<"b">>>>, <<Itoa(2), <<"c">>>>,
              <<Itoa(3), <<"t","a","g">>>> >>

\* C8: a blank or comment line, indented or not, is skipped entirely: the
\* file reads as it reads without those lines (same outcome, same contents),
\* so an indented line after one still extends the entry before it.
C8_SkippedLines ==
    /\ (rf.status \in {"ok", "err", "panic"} /\ main # Missing) =>
           LET r == readLoop(Strip(main), rfInit)
           IN  /\ r.status = rf.status
               /\ r.err = rf.err
               /\ Contents(r.lines) = Contents(rf.lines)
    /\ (rf.status = "ok" /\ Strip(main) = <<PKey, PCont>>) =>
           Contents(rf.lines) = <<ContKeyValue12>>

\* an entry, skipped lines, then an indented line that extends the entry
C8_Witness ==
    /\ rf.status = "ok"
    /\ main \in {<<PKey, PIndComment, PCont>>, <<PKey, PBlank, PCont>>,
                 <<PKey, PComment, PCont>>}
    /\ rf.lines = << <<Itoa(1), ContKeyValue12>> >>

\* the entries with the content of the indented line l appended, after one
\* space, to the last of them
RefExtendLast(acc, l) ==
    IF acc = <<>> THEN acc
    ELSE [acc EXCEPT ![Len(acc)] = @ \o <<" ">> \o RefNorm(l)]

RECURSIVE RefSplicedFrom(_, _, _)
\* the contents of the entries of a file from line k on, acc being those
\* emitted before: a directive adds the entries of the named file, a start
\* adds an entry, an indented line extends the entry emitted last
RefSplicedFrom(file, k, acc) ==
    IF k > Len(file) THEN acc
    ELSE IF RefSkipped(file[k]) THEN RefSplicedFrom(file, k + 1, acc)
    ELSE IF RefIndented(file[k])
        THEN RefSplicedFrom(file, k + 1, RefExtendLast(acc, file[k]))
    ELSE IF RefSource(file[k])
        THEN RefSplicedFrom(file, k + 1, acc \o RefContentsFrom(other, 1))
    ELSE RefSplicedFrom(file, k + 1, acc \o <<RefNorm(file[k])>>)

\* a line of the file begins, after trimming, with a backslash
HasLeadingBackslash(file) ==
    \E k \in 1..Len(file) :
        TrimSpace(file[k]) # <<>> /\ TrimSpace(file[k])[1] = "\\"

\* C22 as stated: in a file with a source directive an indented line extends
\* the entry emitted last, whatever the sourced file contributed; reading
\* such a file does not fail for the indented line.
C22_ContinuationAfterSource ==
    /\ (rf.status = "ok" /\ ~NoSource(main)) =>
           Contents(rf.lines) = RefSplicedFrom(main, 1, <<>>)
    /\ (rf.status = "panic" /\ ~NoSource(main)) =>
           HasLeadingBackslash(main) \/ HasLeadingBackslash(other)

\* what is left of C22 when the sourced file contributes exactly one entry
\* to each directive
OnlyOneSourcedEntry ==
    (rf.status \in {"ok", "panic"} /\ ~NoSource(main) /\ other # Missing
         /\ Len(RefContentsFrom(other, 1)) = 1) =>
        /\ rf.status = "ok" => Contents(rf.lines) = RefSplicedFrom(main, 1, <<>>)
        /\ rf.status = "panic" => HasLeadingBackslash(main)

\* the first element of every entry
Numbers(entries) == [k \in 1..Len(entries) |-> entries[k][1]]

RECURSIVE RefNumbersOf(_, _)
\* the numbers of the lines that start an entry in a file without source
\* directives, from line k on
RefNumbersOf(file, k) ==
    IF k > Len(file) THEN <<>>
    ELSE IF RefStart(file[k]) THEN <<Itoa(k)>> \o RefNumbersOf(file, k + 1)
    ELSE RefNumbersOf(file, k + 1)

RECURSIVE RefNumbersFrom(_, _)
\* the line numbers the entries of a file are to carry, from line k on:
\* those of the sourced file where a directive stands
RefNumbersFrom(file, k) ==
    IF k > Len(file) THEN <<>>
    ELSE IF RefSource(file[k])
        THEN RefNumbersOf(other, 1) \o RefNumbersFrom(file, k + 1)
    ELSE IF RefStart(file[k]) THEN <<Itoa(k)>> \o RefNumbersFrom(file, k + 1)
    ELSE RefNumbersFrom(file, k + 1)

\* C25: every entry carries the 1-based number, in the file it was read
\* from, of the line that started it: skipped lines are counted, indented
\* lines change no number, and spliced entries keep the numbers of the
\* sourced file.
C25_LineNumbers ==
    rf.status = "ok" => Numbers(rf.lines) = RefNumbersFrom(main, 1)

\* a comment, a directive on line 2 naming a file whose entry starts on its
\* line 2 after a comment and has an indented line, and an entry on line 3
C25_Witness ==
    /\ rf.status = "ok"
    /\ main = <<PComment, PSource, PTag>>
    /\ other = <<PComment, POtherB, PCont>>
    /\ Numbers(rf.lines) = <<Itoa(2), Itoa(3)>>
    /\ Len(Split(rf.lines[1][2], " ")) = 3

(***************************************************************************)
(* What the claims about Parse are measured against.                       *)
(***************************************************************************)
\* s holds the characters of p, adjacent and in order
Contains(s, p) ==
    \E k \in 0..(Len(s) - Len(p)) : SubSeq(s, k + 1, k + Len(p)) = p

\* the first line that is neither blank nor a comment is indented
FirstLineIndented(file) ==
    \E k \in 1..Len(file) :
        /\ ~RefSkipped(file[k])
        /\ RefIndented(file[k])
        /\ \A j \in 1..(k - 1) : RefSkipped(file[j])

\* the entry Parse bound last
LastBound == rf.lines[idx - 1]

\* the key of an entry names no field: neither the camelized name nor the
\* name with its trailing "s" toggled
UnknownKey(entry) ==
    /\ upperAcronyms(camelize(KeyOf(entry[2])), 1) \notin Fields
    /\ togglePlural(upperAcronyms(camelize(KeyOf(entry[2])), 1)) \notin Fields

\* the numbers of the lines of a file that start an entry with the key
LinesWithKey(file, key) ==
    {Itoa(k) : k \in {j \in 1..Len(file) :
                          RefStart(file[j]) /\ KeyOf(RefNorm(file[j])) = key}}

\* C2 as stated: when the first significant line of the file is indented,
\* Parse returns "first line can't be indented" and leaves the struct alone.
C2_FirstLineIndented ==
    (pc = "done" /\ FirstLineIndented(main)) =>
        /\ returnErr = ErrIndented
        /\ rf.lines = <<>>
        /\ config = (IF kind = "map" THEN Map0 ELSE Config0)
        /\ calls = <<>>

\* what is left of C2 where no line of the file begins with a backslash
\* after trimming, so that collapseWhitespace does not panic
OnlyFirstLineIndentedError ==
    (pc = "done" /\ FirstLineIndented(main)
         /\ \A k \in 1..Len(main) :
                TrimSpace(main[k]) = <<>> \/ TrimSpace(main[k])[1] # "\\") =>
        /\ returnErr = ErrIndented
        /\ rf.lines = <<>>
        /\ config = (IF kind = "map" THEN Map0 ELSE Config0)
        /\ calls = <<>>

\* C9: an entry whose key names no field ends Parse with an error that holds
\* the file name given to Parse, the entry's 1-based line number, the key as
\* written and "unknown option".
C9_UnknownOption ==
    \A n \in 1..(idx - 1) :
        (kind = "struct" /\ UnknownKey(rf.lines[n])) =>
            /\ n = idx - 1
            /\ pc = "done"
            /\ Contains(returnErr, MainName \o <<" line ">> \o rf.lines[n][1])
            /\ rf.lines[n][1] \in LinesWithKey(main, KeyOf(rf.lines[n][2]))
                                  \cup LinesWithKey(other, KeyOf(rf.lines[n][2]))
            /\ Contains(returnErr,
                        <<": error parsing ">> \o KeyOf(rf.lines[n][2]))
            /\ Contains(returnErr, <<"unknown option">>)

\* Parse has stopped at an unknown key on the third line of the file
C9_Witness ==
    /\ pc = "done"
    /\ kind = "struct"
    /\ main = <<PComment, PTag, PNope>>
    /\ idx = 3
    /\ returnErr = MainName \o <<" line ", "3", ": error parsing ",
                                 "n", "o", "p", "e", ": ">>
                       \o ErrUnknownOption(FNope, FNope \o <<"s">>)

\* the calls made for the n-th entry
CallsFor(n) == SelectSeq(calls, LAMBDA c : c.entry = n)

\* C10: when the Handlers map has an entry for the resolved field name, that
\* handler is invoked with the line's values and no type handler is invoked
\* for the line, whether the handler succeeds or fails; its failure is
\* returned wrapped with "(from handler)".
C10_FieldHandlerFirst ==
    \A n \in 1..(idx - 1) :
        LET v == Split(rf.lines[n][2], " ")
            fn == fieldNameFromKey(v[1])
        IN  (kind = "struct" /\ ~handlers.nil /\ fn.err = Nil
                 /\ fn.name \in handlers.names) =>
                /\ Len(CallsFor(n)) = 1
                /\ CallsFor(n)[1].kind = "field"
                /\ CallsFor(n)[1].name = fn.name
                /\ CallsFor(n)[1].args = Tail(v)
                /\ FieldGet(config, fn.name) = FieldGet(Config0, fn.name)
                /\ CallsFor(n)[1].end = "err" =>
                       /\ n = idx - 1
                       /\ pc = "done"
                       /\ returnErr = fmterr(MainName, rf.lines[n][1], v[1],
                                         ErrHandler \o <<" (from handler)">>)

\* the field handler of Key has failed and Parse has returned its error
C10_WitnessFailed ==
    /\ pc = "done"
    /\ kind = "struct"
    /\ main = <<PTag, PKey>>
    /\ calls[Len(calls)] = Call("field", FKey, <<TokValue1>>, 2, "err")
    /\ Contains(returnErr, <<" (from handler)">>)

\* the field handler of Key has been invoked and has succeeded, and a type
\* handler has set Tags for another line
C10_Witness ==
    /\ pc = "done"
    /\ kind = "struct"
    /\ returnErr = Nil
    /\ main = <<PKey, PTag>>
    /\ Len(calls) = 2
    /\ calls[1] = Call("field", FKey, <<TokValue1>>, 1, "ok")
    /\ calls[2].kind = "type"

TokTag == <<"t","a","g">>

\* the values of an entry: its tokens after the key
ValuesOf(entry) == Tail(Split(entry[2], " "))

\* C11 as stated: in a chain of type handlers the first handler receives the
\* line's values and each later handler receives the value the handler
\* before it returned.
C11_Chained ==
    \A n \in 1..(idx - 1) :
        LET cs == CallsFor(n)
        IN  \A k \in 1..Len(cs) :
                cs[k].kind = "type" =>
                    /\ k = 1 => cs[k].args = ValuesOf(rf.lines[n])
                    /\ k > 1 => cs[k].args =
                                   TypeHandlerVal(cs[k - 1].name[1],
                                                  cs[k - 1].args)

\* the value the type handlers produced for the n-th entry when it set
\* Tags: what the last handler of the chain returned
Produced(n) ==
    LET cs == CallsFor(n)
    IN  IF /\ KeyOf(rf.lines[n][2]) = TokTag
           /\ cs # <<>>
           /\ \A k \in 1..Len(cs) : cs[k].kind = "type" /\ cs[k].end = "ok"
            THEN TypeHandlerVal(cs[Len(cs)].name[1], cs[Len(cs)].args)
            ELSE <<>>

RECURSIVE ProducedUpTo(_)
\* the values produced for the first n entries, in file order
ProducedUpTo(n) == IF n <= 0 THEN <<>> ELSE ProducedUpTo(n - 1) \o Produced(n)

\* C12: the slice field Tags, set through its type handlers, holds the
\* concatenation in file order of the values produced for each bound line
\* with the key tag; after tag a and tag b it holds [a, b].
C12_SliceAppend ==
    kind = "struct" =>
        /\ FieldGet(config, FTags) = ProducedUpTo(idx - 1)
        /\ (/\ Len(rf.lines) >= 2 /\ idx > 2 /\ FTags \notin handlers.names
            /\ rf.lines[1][2] = PTag /\ rf.lines[2][2] = POtherTag) =>
               SubSeq(FieldGet(config, FTags), 1, 2) = << <<"a">>, <<"b">> >>

\* tag a and the sourced tag b have been bound: Tags is [a, b]
C12_Witness ==
    /\ pc = "done"
    /\ kind = "struct"
    /\ main = <<PTag, PSource>>
    /\ other = <<POtherTag>>
    /\ returnErr = Nil
    /\ FieldGet(config, FTags) = << <<"a">>, <<"b">> >>

\* the entries among the first n that have the key
EntriesWithKey(n, key) == {m \in 1..n : KeyOf(rf.lines[m][2]) = key}

\* the map Parse is to have built from the first n entries: every key of an
\* entry, with the values of the last entry that has the key
RefMap(n) ==
    [key \in {KeyOf(rf.lines[m][2]) : m \in 1..n} |->
        LET last == CHOOSE m \in EntriesWithKey(n, key) :
                        \A j \in EntriesWithKey(n, key) : j <= m
        IN  ValuesOf(rf.lines[last])]

\* C13: for a map destination every bound line sets record[key] to the
\* line's remaining tokens, the last line with a key wins, no handler is
\* invoked and no line fails.
C13_MapDestination ==
    (kind = "map" /\ pc \in {"bind", "done"} /\ rf.status = "ok") =>
        /\ config = RefMap(idx - 1)
        /\ calls = <<>>
        /\ returnErr = Nil

\* a map has been filled from two entries with the key `key`, the Handlers
\* map having a handler for Key: the second entry's values are the value
C13_Witness ==
    /\ pc = "done"
    /\ kind = "map"
    /\ ~handlers.nil
    /\ main = <<PKey, PCont, PKey>>
    /\ idx = 3
    /\ config = [key \in {TokKey} |-> <<TokValue1>>]

\* C14 as stated: with DontPanic enabled Parse never panics.
C14_NeverPanics == DontPanic => pc # "panic"

\* what is left of C14 for the panics whose value is an error: the panic of
\* readFile and a handler's panic(err) are returned as Parse's error
OnlyErrorPanicsRecovered ==
    /\ (pc = "panic" /\ DontPanic) =>
           /\ calls # <<>>
           /\ calls[Len(calls)].end = "panicStr"
    /\ (pc = "done" /\ rf.status = "panic") => returnErr = ErrIndexRange
    /\ (pc = "done" /\ calls # <<>> /\ calls[Len(calls)].end = "panicErr") =>
           returnErr = ErrHandlerPanic

RECURSIVE RefTagsUpTo(_)
\* the values of the entries with the key tag among the first n, in order
RefTagsUpTo(n) ==
    IF n <= 0 \/ FTags \in handlers.names THEN <<>>
    ELSE RefTagsUpTo(n - 1) \o
             (IF KeyOf(rf.lines[n][2]) = TokTag THEN ValuesOf(rf.lines[n])
                                                ELSE <<>>)

\* the value the first n entries give Key: the value of the last entry with
\* the key `key`, unless a field handler stands for the field (and likewise
\* RefTagsUpTo for Tags)
RefKeyUpTo(n) ==
    IF EntriesWithKey(n, TokKey) = {} \/ FKey \in handlers.names THEN <<>>
    ELSE LET last == CHOOSE m \in EntriesWithKey(n, TokKey) :
                         \A j \in EntriesWithKey(n, TokKey) : j <= m
         IN  Join(ValuesOf(rf.lines[last]), <<" ">>)

\* the struct the first n entries give
RefStruct(n) ==
    [f \in Fields |-> IF f = FTags THEN RefTagsUpTo(n)
                      ELSE IF f = FKey THEN RefKeyUpTo(n)
                      ELSE <<>>]

\* C15: once an error is set Parse has returned, so no later line is
\* processed; every call made is for the failing line or a line before it;
\* the error is the failing line's; and the struct holds what the lines
\* before the failing line gave it.
C15_FirstErrorAborts ==
    /\ returnErr # Nil => pc = "done"
    /\ (pc = "done" /\ returnErr # Nil) =>
           /\ \A k \in 1..Len(calls) : calls[k].entry <= idx - 1
           /\ idx = 0 => (calls = <<>>
                          /\ config = (IF kind = "map" THEN Map0 ELSE Config0))
           /\ (idx > 0 /\ kind = "struct") =>
                  /\ config = RefStruct(idx - 2)
                  /\ \/ returnErr = ErrHandlerPanic
                     \/ Contains(returnErr,
                                 MainName \o <<" line ">>
                                     \o rf.lines[idx - 1][1]
                                     \o <<": error parsing ">>
                                     \o KeyOf(rf.lines[idx - 1][2]))

\* tag a has set Tags, the second entry has failed and a third entry, a tag
\* line too, is left unprocessed
C15_Witness ==
    /\ pc = "done"
    /\ kind = "struct"
    /\ main = <<PTag, PNope, PTag>>
    /\ idx = 3
    /\ Len(rf.lines) = 3
    /\ Contains(returnErr, <<"unknown option">>)
    /\ FieldGet(config, FTags) = << <<"a">> >>

\* C24: when a type handler of a chain returns an error it is the last
\* handler invoked for the line, the struct is what the lines before gave,
\* and Parse has returned an error that names the file, the line number and
\* the key.
C24_ChainStopsAtError ==
    \A n \in 1..(idx - 1) :
        LET cs == CallsFor(n)
        IN  \A k \in 1..Len(cs) :
                (kind = "struct" /\ cs[k].kind = "type" /\ cs[k].end = "err")
                    =>
                    /\ k = Len(cs)
                    /\ n = idx - 1
                    /\ pc = "done"
                    /\ config = RefStruct(n - 1)
                    /\ Contains(returnErr,
                                MainName \o <<" line ">> \o rf.lines[n][1]
                                    \o <<": error parsing ">>
                                    \o KeyOf(rf.lines[n][2]))

\* Key has been set by a first line; the second entry has two values, the
\* first handler of the chain of string has refused them, and Key is as the
\* first line left it
C24_Witness ==
    /\ pc = "done"
    /\ kind = "struct"
    /\ main = <<PKey, PKey, PCont>>
    /\ Len(calls) = 3
    /\ calls[3] = Call("type", <<"validateSingle">>, <<TokValue1, TokValue2>>,
                       2, "err")
    /\ FieldGet(config, FKey) = TokValue1
    /\ Contains(returnErr, ErrNotSingle)

\* C30: for a struct a key that names no field fails with "unknown option"
\* and no handler is invoked for it, whatever the Handlers map holds; a field
\* handler that is invoked is the one under the name of the field the key
\* resolved to.
C30_HandlerAfterResolution ==
    \A n \in 1..(idx - 1) :
        kind = "struct" =>
            /\ UnknownKey(rf.lines[n]) =>
                   /\ CallsFor(n) = <<>>
                   /\ n = idx - 1
                   /\ Contains(returnErr, <<"unknown option">>)
            /\ \A k \in 1..Len(CallsFor(n)) :
                   CallsFor(n)[k].kind = "field" =>
                       /\ CallsFor(n)[k].name \in Fields
                       /\ CallsFor(n)[k].name \in
                              {upperAcronyms(camelize(KeyOf(rf.lines[n][2])), 1),
                               togglePlural(upperAcronyms(
                                   camelize(KeyOf(rf.lines[n][2])), 1))}
            /\ (KeyOf(rf.lines[n][2]) = TokTag /\ FTags \in handlers.names) =>
                   /\ Len(CallsFor(n)) = 1
                   /\ CallsFor(n)[1].name = FTags

\* the Handlers map has an entry under Nope, the camelized key `nope`; the
\* key has failed with "unknown option" and no handler has been invoked
C30_Witness ==
    /\ pc = "done"
    /\ kind = "struct"
    /\ FNope \in handlers.names
    /\ main = <<PNope>>
    /\ idx = 2
    /\ calls = <<>>
    /\ Contains(returnErr, <<"unknown option">>)

\* the Handlers map has entries under Tags and under Tag; the key `tag` has
\* resolved to the field Tags and the handler under Tags has been invoked
C30_WitnessPlural ==
    /\ pc = "done"
    /\ kind = "struct"
    /\ main = <<PTag>>
    /\ calls = <<Call("field", FTags, << <<"a">> >>, 1, "ok")>>

(***************************************************************************)
(* What the claims about fieldNameFromKey are measured against.            *)
(***************************************************************************)
KeyUid == <<"u","i","d">>

\* C16 as stated: a key that is an acronym of the list in lower case
\* resolves to the struct field named by the acronym in all capitals.
C16_AcronymsUpperCased ==
    (npc = "done" /\ nkey \in AcronymKeys) =>
        /\ nname.err = Nil
        /\ nname.name = ToUpper(nkey)

\* what is left of C16 for every acronym of the list but Uid
OnlyUidMisresolved ==
    (npc = "done" /\ nkey \in AcronymKeys \ {KeyUid}) =>
        /\ nname.err = Nil
        /\ nname.name = ToUpper(nkey)

(***************************************************************************)
(* What the claims about FindConfig are measured against.                  *)
(***************************************************************************)
\* the file name without its leading slash
RefFile == IF Head(fname) = "/" THEN Tail(fname) ELSE fname

\* the candidate paths in the order of the claim, as written: those of a
\* variable that is not set are left out
RefCandidates ==
    (IF xdg # <<>> THEN << xdg \o <<"/">> \o RefFile >>
     ELSE IF home # <<>>
         THEN << home \o <<"/",".","c","o","n","f","i","g","/">> \o RefFile >>
     ELSE <<>>)
    \o (IF home # <<>> THEN << home \o <<"/", ".">> \o RefFile >> ELSE <<>>)
    \o << <<"/","e","t","c","/">> \o RefFile,
          <<"/","u","s","r","/","l","o","c","a","l","/","e","t","c","/">> \o RefFile,
          <<"/","u","s","r","/","p","k","g","/","e","t","c","/">> \o RefFile,
          <<".","/">> \o RefFile >>

\* the positions of the candidates that exist
RefExisting == {k \in 1..Len(RefCandidates) : Clean(RefCandidates[k]) \in exists}

\* C17: FindConfig returns the first candidate, in the fixed order, that
\* exists, the empty string when none exists, and never a path that does
\* not exist.
C17_FirstExisting ==
    fpc = "done" =>
        /\ RefExisting = {} => found = <<>>
        /\ RefExisting # {} =>
               /\ found # <<>>
               /\ Clean(found) =
                      Clean(RefCandidates[CHOOSE k \in RefExisting :
                                              \A j \in RefExisting : k <= j])
        /\ found # <<>> => Clean(found) \in exists

\* with XDG_CONFIG unset, $HOME/.config/f missing and both $HOME/.f and
\* /etc/f present, FindConfig has returned $HOME/.f
C17_Witness ==
    /\ fpc = "done"
    /\ xdg = <<>>
    /\ home = <<"/","h">>
    /\ exists = {<<"/","h","/",".","f">>, <<"/","e","t","c","/","f">>, <<"f">>}
    /\ found = <<"/","h","/",".","f">>

(***************************************************************************)
(* What the claims about parseConfig are measured against.                 *)
(***************************************************************************)
\* cloning is not skipped: neither the file nor the options say so
Cloning == cfile.valid /\ ~cfile.skip /\ ~optSkip

\* the user and the password after the environment override
RefUser == IF envUser # "" THEN envUser ELSE cfile.user
RefPass == IF envPass # "" THEN envPass ELSE cfile.pass

\* C18: when cloning is not skipped, the config parseConfig returns has the
\* value of GITHUB_USER as user when that is non-empty and the file's value
\* otherwise, and likewise GITHUB_PASS and pass.
C18_EnvOverride ==
    (cpc = "done" /\ Cloning /\ ~cres.isnil) =>
        /\ cres.c.User = RefUser
        /\ cres.c.Pass = RefPass

\* GITHUB_USER is set and replaces the file's user; GITHUB_PASS is not set
\* and the file's pass is kept
C18_Witness ==
    /\ cpc = "done"
    /\ Cloning
    /\ cfile.user = "u" /\ cfile.pass = "p"
    /\ envUser = "U" /\ envPass = ""
    /\ ~cres.isnil
    /\ cres.c.User = "U" /\ cres.c.Pass = "p"

\* C19: parseConfig returns the error of Parse for a file that cannot be
\* parsed; else, cloning not being skipped, errNoUser when the user is empty
\* after the override, else errNoPass when the password is, and a config
\* with both values only when both are non-empty.
C19_ErrorOrder ==
    cpc = "done" =>
        /\ ~cfile.valid => (cres.isnil /\ cres.err = ErrParseConfig)
        /\ Cloning =>
               IF RefUser = "" THEN cres.isnil /\ cres.err = errNoUser
               ELSE IF RefPass = "" THEN cres.isnil /\ cres.err = errNoPass
               ELSE /\ ~cres.isnil
                    /\ cres.err = Nil
                    /\ cres.c.User = RefUser /\ cres.c.Pass # ""
        /\ (cfile.valid /\ ~Cloning) => (~cres.isnil /\ cres.err = Nil)

\* neither a user nor a password is set anywhere: the error is errNoUser
C19_Witness ==
    /\ cpc = "done"
    /\ Cloning
    /\ cfile.user = "" /\ cfile.pass = ""
    /\ envUser = "" /\ envPass = ""
    /\ cres.isnil
    /\ cres.err = errNoUser

(***************************************************************************)
(* What the claims about Paginate are measured against.                    *)
(***************************************************************************)
RECURSIVE RefPagesUpTo(_)
\* the items of the first n pages of the server, in page order
RefPagesUpTo(n) ==
    IF n <= 0 THEN <<>> ELSE RefPagesUpTo(n - 1) \o srv[n]

\* C20 as stated: with nPages = 0 the k-th request carries the page number
\* k, and scan holds the items of the pages before the first empty page or
\* the first failed request, in page order.
C20_SerialPages ==
    /\ \A k \in 1..Len(reqs) : reqs[k] = k
    /\ ppc = "done" =>
           \E n \in 0..Len(srv) :
               /\ scan = RefPagesUpTo(n)
               /\ errs = <<>> => n = Len(srv)

\* what is left of C20: the requests are made one after the other, none
\* after a failed request or an empty answer, and scan holds the answers to
\* the requests in the order they were made
OnlySerialUntilLast ==
    /\ Len(reqs) \in {pi - 1, pi}
    /\ Len(errs) <= 1
    /\ errs # <<>> => ppc \in {"ret", "done"}
    /\ \A k \in 1..Len(reqs) : reqs[k] = upage
    /\ \E n \in {Len(reqs) - 1, Len(reqs)} :
           scan = [j \in 1..(n * Len(ServerPage([page |-> upage]))) |->
                      ServerPage([page |-> upage])[((j - 1) % 2) + 1]]

(***************************************************************************)
(* What the claims about makeHome are measured against.                    *)
(***************************************************************************)
\* the groups, from 1, that have a project that is a prefix of the path
RefMatching(path) ==
    {g \in 1..Len(hgroups) :
        \E k \in 1..Len(hgroups[g].Projects) :
            LET pr == hgroups[g].Projects[k]
            IN  /\ Len(pr) <= Len(path)
                /\ \A c \in 1..Len(pr) : pr[c] = path[c]}

\* the groups, from 1, whose name is the non-grouped name, case ignored
RefNamed == {g \in 1..Len(hgroups) : ToLower(hgroups[g].Name) = ToLower(nonGrouped)}

Least(S) == CHOOSE x \in S : \A y \in S : x <= y

\* the non-grouped group, from 1; 0 when there is none
RefNonGrouped ==
    IF nonGrouped = <<>> THEN Len(hgroups)
    ELSE IF RefNamed = {} THEN 0
    ELSE Least(RefNamed)

\* the group, from 1, a package with the path belongs in
RefGroupOf(path) ==
    IF RefMatching(path) # {} THEN Least(RefMatching(path)) ELSE RefNonGrouped

\* the packages among the first n that belong in the group g, in order
RefPackagesOf(g, n) ==
    SelectSeq(SubSeq(hpkgs, 1, n), LAMBDA path : RefGroupOf(path) = g)

\* makeHome has not begun to add packages, or has added the first hi - 1 to
\* the groups they belong in and to no other
HomeGrouped ==
    /\ hpc \in {"add", "done"} /\ hret \in {Nil, ErrCreate} =>
           \A g \in 1..Len(hgroups) :
               hgroups[g].Packages = RefPackagesOf(g, hi - 1)
    /\ (hpc = "done" /\ hret \in {Nil, ErrCreate}) => hi = Len(hpkgs) + 1
    /\ (nonGrouped # <<>> /\ RefNamed = {} /\ hpc = "done") =>
           /\ hret = ErrNonGrouped(nonGrouped)
           /\ ~hwrote
           /\ \A g \in 1..Len(hgroups) : hgroups[g].Packages = <<>>

\* C21: makeHome appends every package to exactly one group, the first group
\* in configuration order with a project that is a prefix of its
\* RelImportPath, else the non-grouped group (the group of that name, case
\* ignored, or the last group when no name is given); when the name is that
\* of no group makeHome returns an error and writes no home page.
C21_OneGroupEach ==
    /\ HomeGrouped
    /\ hpc # "panic"

\* makeHome panics only with no group, no non-grouped name and a package, and
\* groups the packages as said otherwise
OnlyNoGroupsPanics ==
    /\ HomeGrouped
    /\ hpc = "panic" =>
           /\ hgroups = <<>>
           /\ nonGrouped = <<>>
           /\ hpkgs # <<>>

\* two packages have been grouped: x/y by the project x of the first group,
\* z, that no project matches, in the group named by non-grouped in capitals
HomeGroupedWitness ==
    /\ hpc = "done"
    /\ hwrote
    /\ nonGrouped = NameUpper
    /\ Len(hgroups) = 2
    /\ hgroups[1].Packages = << <<"x","y">> >>
    /\ hgroups[2].Name = NameLower
    /\ hgroups[2].Packages = << <<"z">> >>

\* the configuration lists no group and makeHome has panicked
HomePanicWitness ==
    /\ hpc = "panic"
    /\ hgroups = <<>>
    /\ hpkgs = << <<"z">> >>

(***************************************************************************)
(* What the claims about list are measured against.                        *)
(***************************************************************************)
\* the number of elements of the path: one more than its slashes
RefElements(path) == Cardinality({k \in 1..Len(path) : path[k] = "/"}) + 1

\* whether the package at q is a subpackage of the package at p
RefSubpackage(p, q) ==
    LET a == packages[p].FullImportPath
        b == packages[q].FullImportPath
    IN  /\ Len(b) > Len(a) + 1
        /\ \A k \in 1..Len(a) : b[k] = a[k]
        /\ b[Len(a) + 1] = "/"

\* C27: when list has returned, every package of one element with no
\* subpackage in the list has Depth 0, wherever it stands, the last position
\* included, and every package of one element directly followed by one of
\* its subpackages has Depth 1.
C27_LeafDepthZero ==
    listpc = "done" =>
        \A p \in 1..Len(packages) :
            RefElements(packages[p].FullImportPath) = 1 =>
                /\ (\A q \in 1..Len(packages) : ~RefSubpackage(p, q)) =>
                       packages[p].Depth = 0
                /\ (p < Len(packages) /\ RefSubpackage(p, p + 1)) =>
                       packages[p].Depth = 1

\* what list does: a package of one element has Depth 0 when the package
\* after it has one element too, and Depth 1 otherwise, the last position
\* included; the packages are in the order of their paths
OnlyBeforeTopLevelZero ==
    listpc = "done" =>
        /\ \A p \in 1..(Len(packages) - 1) :
               StringLess(packages[p].FullImportPath,
                          packages[p + 1].FullImportPath)
        /\ \A p \in 1..Len(packages) :
               LET n == RefElements(packages[p].FullImportPath)
               IN  packages[p].Depth =
                       IF /\ n = 1
                          /\ p < Len(packages)
                          /\ RefElements(packages[p + 1].FullImportPath) = 1
                           THEN 0 ELSE n

\* list has returned a and c: a, before c, has Depth 0 and c, the last and
\* with no subpackage, has Depth 1
ListLastWitness ==
    /\ listpc = "done"
    /\ packages = <<[FullImportPath |-> <<"a">>, Depth |-> 0],
                    [FullImportPath |-> <<"c">>, Depth |-> 1]>>

(***************************************************************************)
(* What the claims about Paginate with goroutines are measured against.    *)
(***************************************************************************)
\* the goroutines whose next step writes a variable they share: err, errs
\* or the slice
RefWriters == {g \in 1..nPages : gpc[g] \in {"assign", "errs", "slice"}}

\* Paginate returns only after every goroutine has finished
ReturnsAfterAll ==
    ppc \in {"ret", "done"} => \A g \in 1..nPages : gpc[g] = "end"

\* C29: with nPages > 0 a goroutine that is about to write a variable the
\* goroutines share (the slice, errs, the captured err) holds the mutex, and
\* Paginate returns only after all nPages goroutines have finished.
C29_WritesUnderMutex ==
    /\ \A g \in RefWriters : lock = g
    /\ ReturnsAfterAll

\* what holds: errs and the slice are written with the mutex held, err is
\* written without it, and Paginate returns after all the goroutines
OnlyErrOutsideMutex ==
    /\ \A g \in RefWriters : (lock = g) <=> (gpc[g] # "assign")
    /\ ReturnsAfterAll

\* two goroutines are about to assign err at the same time, and neither
\* holds the mutex
GoRaceWitness ==
    /\ nPages >= 2
    /\ gpc[1] = "assign"
    /\ gpc[2] = "assign"
    /\ own[1] # own[2]
    /\ lock = 0

\* a request has failed and Paginate has returned nil: the error was
\* overwritten before the goroutine read it
GoLostErrorWitness ==
    /\ ppc = "done"
    /\ \E g \in 1..nPages : own[g] = "fail"
    /\ pret = Nil

\* a nil error has been appended to errs
GoNilErrorWitness ==
    /\ ppc = "done"
    /\ \E k \in 1..Len(errs) : errs[k] = Nil

=============================================================================
